---- MODULE Spec2Model ----
(***************************************************************************)
(* Halali: the rules engine (halali/game.py, class Halali), its networked  *)
(* wrapper (NetworkedHalali, MPServerHalali, MPClientHalali) and the       *)
(* transport loops (halali/networking.py).                                 *)
(*                                                                         *)
(* Conventions of the translation                                          *)
(*  - a board is a function from cells <<x, y>> to cards; Python's None in *)
(*    a cell is the record NoCard;                                         *)
(*  - turns_left is None (the empty sequence) or <<h>>, h the number of    *)
(*    HALF turns left: Python's 5 is <<10>>, 0.5 is <<1>>, so that         *)
(*    "-= 0.5" is "- 1" on integers;                                       *)
(*  - an operation returns [res, g]: res is OK, the InvalidMove reason, or *)
(*    TypeError (an exception that is not InvalidMove and that no caller   *)
(*    catches); g is the engine after the call.                            *)
(***************************************************************************)
EXTENDS Integers, Sequences, FiniteSets, TLC

\* ------------------------------------------------------------ bounds ----
MaxOps == 3            \* successful operations explored from an initial position
MaxNetOps == 3         \* successful operations of host and client in networked play
MaxPings == 2          \* keepalive pings of the joining side
MaxWire == 2           \* messages fed to the two handlers

\* --------------------------------------------------------- catalogue ----
N_ROWS_AND_COLS == 7
VERSION == "this build"
START_TURNS == 5
TEAMS == {"humans", "animals"}
Kinds == {"fox", "bear", "duck", "pheasant", "hunter", "lumberjack", "tree"}

CARD_TYPES ==
  [k \in Kinds |->
     CASE k = "fox" ->
            [count |-> 6, team |-> "animals", points |-> 5,
             eats |-> {"duck", "pheasant"},
             slow |-> FALSE, immovable |-> FALSE, directional |-> FALSE]
       [] k = "bear" ->
            [count |-> 2, team |-> "animals", points |-> 10,
             eats |-> {"hunter", "lumberjack"},
             slow |-> TRUE, immovable |-> FALSE, directional |-> FALSE]
       [] k = "duck" ->
            [count |-> 7, team |-> "none", points |-> 2, eats |-> {},
             slow |-> FALSE, immovable |-> FALSE, directional |-> FALSE]
       [] k = "pheasant" ->
            [count |-> 8, team |-> "none", points |-> 3, eats |-> {},
             slow |-> FALSE, immovable |-> FALSE, directional |-> FALSE]
       [] k = "hunter" ->
            [count |-> 8, team |-> "humans", points |-> 5,
             eats |-> {"duck", "pheasant", "fox", "bear"},
             slow |-> FALSE, immovable |-> FALSE, directional |-> TRUE]
       [] k = "lumberjack" ->
            [count |-> 2, team |-> "humans", points |-> 5, eats |-> {"tree"},
             slow |-> TRUE, immovable |-> FALSE, directional |-> FALSE]
       [] k = "tree" ->
            [count |-> 15, team |-> "none", points |-> 2, eats |-> {},
             slow |-> FALSE, immovable |-> TRUE, directional |-> FALSE]]

\* a plausible slip: the team test dropped, every movable kind for every team
MOVABLE_FOR_anyteam ==
  [t \in TEAMS |-> {k \in Kinds : ~CARD_TYPES[k].immovable}]

MOVABLE_FOR ==
  [t \in TEAMS |->
     {k \in Kinds : /\ ~CARD_TYPES[k].immovable
                    /\ CARD_TYPES[k].team \in {t, "none"}}]

\* ------------------------------------------------------------- cards ----
Coords == 0 .. (N_ROWS_AND_COLS - 1)
Cells == Coords \X Coords
Mid == N_ROWS_AND_COLS \div 2

NoCard == [kind |-> "none", facing |-> "none", variant |-> "none"]
Card(k, f, v) == [kind |-> k, facing |-> f, variant |-> v]

None == << >>
OK == "ok"
TypeError == "TypeError"
IndexError == "IndexError"

\* self.cards[x][y], a list of N_ROWS_AND_COLS lists of N_ROWS_AND_COLS: an
\* index from -N_ROWS_AND_COLS to -1 counts from the end of the list, any
\* other index outside the list raises IndexError
Index(i) == IF i < 0 THEN i + N_ROWS_AND_COLS ELSE i
InList(i) == i \in (0 - N_ROWS_AND_COLS) .. (N_ROWS_AND_COLS - 1)
Indexable(x, y) == InList(x) /\ InList(y)
Cell(x, y) == <<Index(x), Index(y)>>

Min2(a, b) == IF a < b THEN a ELSE b
Max2(a, b) == IF a < b THEN b ELSE a
Other(t) == IF t = "humans" THEN "animals" ELSE "humans"

\* ------------------------------------------------------ rules engine ----
\* a plausible slip: the sentinel compared by identity
can_play_strict(g) == g.to_play = g.team

\* `both` compares equal to either team
can_play(g) == g.team = "both" \/ g.to_play = g.team

check_can_play(g, for_enemy) ==
  IF for_enemy
    THEN (IF can_play(g) THEN "Not other player's turn!" ELSE OK)
    ELSE (IF ~can_play(g) THEN "Not your turn!" ELSE OK)

\* a plausible slip: for_enemy ignored when choosing the team that moves
MoverTeam_own(g, for_enemy) == g.team

\* the team whose pieces the move is validated for; only called with a
\* concrete team (with `both` the lookup raises, see validate_move)
MoverTeam(g, for_enemy) == IF for_enemy THEN Other(g.team) ELSE g.team

\* a plausible slip: range(smaller + 2, bigger)
Obstructed_late(cards, card_x, card_y, target_x, target_y) ==
  IF card_x # target_x
    THEN \E i \in (Min2(card_x, target_x) + 2) .. (Max2(card_x, target_x) - 1) :
           /\ \A j \in (Min2(card_x, target_x) + 2) .. i : Indexable(j, card_y)
           /\ cards[Cell(i, card_y)] # NoCard
    ELSE \E i \in (Min2(card_y, target_y) + 2) .. (Max2(card_y, target_y) - 1) :
           /\ \A j \in (Min2(card_y, target_y) + 2) .. i : Indexable(card_x, j)
           /\ cards[Cell(card_x, i)] # NoCard

\* the loop over range(smaller + 1, bigger) finds a card before it meets an
\* index outside the list
Obstructed(cards, card_x, card_y, target_x, target_y) ==
  IF card_x # target_x
    THEN \E i \in (Min2(card_x, target_x) + 1) .. (Max2(card_x, target_x) - 1) :
           /\ \A j \in (Min2(card_x, target_x) + 1) .. i : Indexable(j, card_y)
           /\ cards[Cell(i, card_y)] # NoCard
    ELSE \E i \in (Min2(card_y, target_y) + 1) .. (Max2(card_y, target_y) - 1) :
           /\ \A j \in (Min2(card_y, target_y) + 1) .. i : Indexable(card_x, j)
           /\ cards[Cell(card_x, i)] # NoCard

\* the same loop meets an index outside the list before it finds a card
OffList(cards, card_x, card_y, target_x, target_y) ==
  /\ ~Obstructed(cards, card_x, card_y, target_x, target_y)
  /\ IF card_x # target_x
       THEN \E i \in (Min2(card_x, target_x) + 1) .. (Max2(card_x, target_x) - 1) :
              ~Indexable(i, card_y)
       ELSE \E i \in (Min2(card_y, target_y) + 1) .. (Max2(card_y, target_y) - 1) :
              ~Indexable(card_x, i)

\* direction of travel
Moving(card_x, card_y, target_x, target_y) ==
  IF card_x # target_x
    THEN (IF card_x > target_x THEN "left" ELSE "right")
    ELSE (IF card_y > target_y THEN "down" ELSE "up")

\* bigger - smaller along the axis of travel
Distance(card_x, card_y, target_x, target_y) ==
  IF card_x # target_x
    THEN Max2(card_x, target_x) - Min2(card_x, target_x)
    ELSE Max2(card_y, target_y) - Min2(card_y, target_y)

\* a plausible slip: > 2
SlowTooFar_two(kind, distance) == CARD_TYPES[kind].slow /\ distance > 2

SlowTooFar(kind, distance) == CARD_TYPES[kind].slow /\ distance > 1

validate_move(g, card_x, card_y, target_x, target_y, for_enemy) ==
  LET card == g.cards[Cell(card_x, card_y)]
      target == g.cards[Cell(target_x, target_y)]
  IN
  IF card_x = target_x /\ card_y = target_y THEN "Didn't move"
  ELSE IF card_x # target_x /\ card_y # target_y THEN "Can't move diagonally"
  \* {"humans": ..., "animals": ...}[both]: `both` is unhashable
  ELSE IF for_enemy /\ g.team = "both" THEN TypeError
  ELSE IF Obstructed(g.cards, card_x, card_y, target_x, target_y)
    THEN "Path obstructed"
  ELSE IF OffList(g.cards, card_x, card_y, target_x, target_y) THEN IndexError
  ELSE IF ~Indexable(card_x, card_y) THEN IndexError
  ELSE IF card = NoCard THEN "Can't move empty tile"
  ELSE IF SlowTooFar(card.kind, Distance(card_x, card_y, target_x, target_y))
    THEN "can only move one tile"
  ELSE IF CARD_TYPES[card.kind].immovable THEN "can't move"
  \* MOVABLE_FOR[both]: `both` is unhashable
  ELSE IF g.team = "both" THEN TypeError
  ELSE IF card.kind \notin MOVABLE_FOR[MoverTeam(g, for_enemy)]
    THEN "Team can't move kind"
  ELSE IF card.facing # "up" THEN "Can't move face-down card."
  ELSE IF ~Indexable(target_x, target_y) THEN IndexError
  ELSE IF target # NoCard /\ target.facing # "up"
    THEN "Can't go to face-down card."
  ELSE IF target # NoCard /\ target.kind \notin CARD_TYPES[card.kind].eats
    THEN "can't eat"
  ELSE IF /\ target # NoCard
          /\ CARD_TYPES[card.kind].directional
          /\ Moving(card_x, card_y, target_x, target_y) # card.variant
    THEN "can only kill"
  ELSE OK

\* a plausible slip: the face-up test dropped
validate_reveal_noface(g, card_x, card_y, for_enemy) ==
  IF g.cards[Cell(card_x, card_y)] = NoCard THEN "Can't reveal empty spot" ELSE OK

validate_reveal(g, card_x, card_y, for_enemy) ==
  LET card == g.cards[Cell(card_x, card_y)]
  IN IF ~Indexable(card_x, card_y) THEN IndexError
     ELSE IF card = NoCard THEN "Can't reveal empty spot"
     ELSE IF card.facing = "up" THEN "Can't reveal face-up card"
     ELSE OK

rescue_possibilities ==
  << <<0, Mid, "y">>,
     <<Mid, 0, "x">>,
     <<N_ROWS_AND_COLS - 1, Mid, "y">>,
     <<Mid, N_ROWS_AND_COLS - 1, "x">> >>

\* the loop over rescue_possibilities, from its i-th entry on; InvalidMove
\* from validate_move is caught (continue), any other exception is not
RECURSIVE rescue_scan(_, _, _, _, _)
rescue_scan(g, card_x, card_y, for_enemy, i) ==
  IF i > Len(rescue_possibilities) THEN "Can't escape from this place"
  ELSE
    LET target_x == rescue_possibilities[i][1]
        target_y == rescue_possibilities[i][2]
        direction == rescue_possibilities[i][3]
    IN
    IF <<target_x, target_y>> = <<card_x, card_y>> THEN OK
    ELSE
      LET v == validate_move(g, card_x, card_y, target_x, target_y, for_enemy)
      IN IF v \in {TypeError, IndexError} THEN v
         ELSE IF v = OK /\ card_x = target_x /\ direction = "x" THEN OK
         ELSE IF v = OK /\ card_y = target_y /\ direction = "y" THEN OK
         ELSE rescue_scan(g, card_x, card_y, for_enemy, i + 1)

\* a plausible slip: the owner of the card not compared with the team to play
validate_rescue_anyteam(g, card_x, card_y, for_enemy) ==
  IF g.cards[Cell(card_x, card_y)] = NoCard THEN "Trying to move empty tile"
  ELSE rescue_scan(g, card_x, card_y, for_enemy, 1)

validate_rescue(g, card_x, card_y, for_enemy) ==
  LET card == g.cards[Cell(card_x, card_y)]
  IN IF ~Indexable(card_x, card_y) THEN IndexError
     ELSE IF card = NoCard THEN "Trying to move empty tile"
     ELSE IF CARD_TYPES[card.kind].team # g.to_play
       THEN "Can't rescue neutral pieces"
     ELSE rescue_scan(g, card_x, card_y, for_enemy, 1)

\* a plausible slip: the endgame entered one card early
swap_teams_early(g) ==
  [g EXCEPT
     !.turns_left = IF g.turns_left # None THEN <<g.turns_left[1] - 1>>
                    ELSE IF g.tiles_left <= 1 THEN <<2 * START_TURNS>>
                    ELSE None,
     !.to_play = IF g.to_play = "humans" THEN "animals" ELSE "humans"]

swap_teams(g) ==
  [g EXCEPT
     !.turns_left = IF g.turns_left # None THEN <<g.turns_left[1] - 1>>
                    ELSE IF g.tiles_left = 0 THEN <<2 * START_TURNS>>
                    ELSE None,
     !.to_play = IF g.to_play = "humans" THEN "animals" ELSE "humans"]

Raise(reason, g) == [res |-> reason, g |-> g]

attempt_rescue(g, location, for_enemy) ==
  LET c == check_can_play(g, for_enemy)
      v == validate_rescue(g, location[1], location[2], for_enemy)
      card == g.cards[Cell(location[1], location[2])]
  IN IF c # OK THEN Raise(c, g)
     ELSE IF v # OK THEN Raise(v, g)
     ELSE [res |-> OK,
           g |-> swap_teams(
                   [g EXCEPT !.cards[Cell(location[1], location[2])] = NoCard,
                             !.points[g.to_play] =
                                @ + CARD_TYPES[card.kind].points])]

\* a plausible slip: the counter decremented before the validation
attempt_reveal_early(g, location, for_enemy) ==
  LET c == check_can_play(g, for_enemy)
      v == validate_reveal(g, location[1], location[2], for_enemy)
      g1 == [g EXCEPT !.tiles_left = @ - 1]
  IN IF c # OK THEN Raise(c, g)
     ELSE IF v # OK THEN Raise(v, g1)
     ELSE [res |-> OK,
           g |-> swap_teams(
                   [g1 EXCEPT !.cards[Cell(location[1], location[2])].facing =
                                 "up"])]

attempt_reveal(g, location, for_enemy) ==
  LET c == check_can_play(g, for_enemy)
      v == validate_reveal(g, location[1], location[2], for_enemy)
  IN IF c # OK THEN Raise(c, g)
     ELSE IF v # OK THEN Raise(v, g)
     ELSE [res |-> OK,
           g |-> swap_teams(
                   [g EXCEPT !.tiles_left = @ - 1,
                             !.cards[Cell(location[1], location[2])].facing =
                                "up"])]

\* a plausible slip: the turn not passed after a move
attempt_move_noswap(g, card_loc, target_loc, for_enemy) ==
  LET c == check_can_play(g, for_enemy)
      v == validate_move(g, card_loc[1], card_loc[2],
                         target_loc[1], target_loc[2], for_enemy)
  IN IF c # OK THEN Raise(c, g)
     ELSE IF v # OK THEN Raise(v, g)
     ELSE [res |-> OK,
           g |-> [g EXCEPT !.cards[Cell(target_loc[1], target_loc[2])] =
                              g.cards[Cell(card_loc[1], card_loc[2])],
                           !.cards[Cell(card_loc[1], card_loc[2])] = NoCard]]

attempt_move(g, card_loc, target_loc, for_enemy) ==
  LET c == check_can_play(g, for_enemy)
      v == validate_move(g, card_loc[1], card_loc[2],
                         target_loc[1], target_loc[2], for_enemy)
      target == g.cards[Cell(target_loc[1], target_loc[2])]
      gained == IF target # NoCard THEN CARD_TYPES[target.kind].points ELSE 0
  IN IF c # OK THEN Raise(c, g)
     ELSE IF v # OK THEN Raise(v, g)
     ELSE [res |-> OK,
           g |-> swap_teams(
                   [g EXCEPT !.points[g.to_play] = @ + gained,
                             !.cards[Cell(target_loc[1], target_loc[2])] =
                                g.cards[Cell(card_loc[1], card_loc[2])],
                             !.cards[Cell(card_loc[1], card_loc[2])] = NoCard])]

\* -------------------------------------------------- construction ----
\* one outcome of generate_pile(): the catalogue's counts, a variant per
\* copy of a kind that has variants, in a shuffled order
FixedPile ==
  << <<"tree", "oak">>, <<"tree", "oak">>, <<"tree", "spruce">>, <<"fox", "none">>,
     <<"hunter", "down">>, <<"tree", "spruce">>, <<"duck", "none">>, <<"duck", "none">>,
     <<"hunter", "left">>, <<"tree", "spruce">>, <<"duck", "none">>, <<"tree", "spruce">>,
     <<"hunter", "right">>, <<"duck", "none">>, <<"pheasant", "none">>, <<"pheasant", "none">>,
     <<"pheasant", "none">>, <<"pheasant", "none">>, <<"tree", "oak">>, <<"lumberjack", "none">>,
     <<"pheasant", "none">>, <<"tree", "oak">>, <<"hunter", "up">>, <<"tree", "spruce">>,
     <<"pheasant", "none">>, <<"fox", "none">>, <<"tree", "oak">>, <<"pheasant", "none">>,
     <<"duck", "none">>, <<"bear", "none">>, <<"tree", "spruce">>, <<"hunter", "down">>,
     <<"hunter", "left">>, <<"fox", "none">>, <<"fox", "none">>, <<"duck", "none">>,
     <<"hunter", "right">>, <<"tree", "oak">>, <<"tree", "oak">>, <<"lumberjack", "none">>,
     <<"bear", "none">>, <<"tree", "spruce">>, <<"fox", "none">>, <<"fox", "none">>,
     <<"tree", "oak">>, <<"hunter", "up">>, <<"duck", "none">>, <<"pheasant", "none">> >>

\* position in the pile of the card dealt to <<x, y>>: x outer loop, y inner
\* loop, the center skipped
PileIndex(x, y) ==
  LET n == x * N_ROWS_AND_COLS + y
  IN IF n < Mid * N_ROWS_AND_COLS + Mid THEN n + 1 ELSE n

\* Halali.__init__(deal): to_play, team, cards, points, turns_left, _tiles_left
NewHalali(pile, deal) ==
  [to_play |-> "animals",
   team |-> "both",
   cards |-> [c \in Cells |->
                IF ~deal \/ c = <<Mid, Mid>> THEN NoCard
                ELSE Card(pile[PileIndex(c[1], c[2])][1], "down",
                          pile[PileIndex(c[1], c[2])][2])],
   points |-> [t \in TEAMS |-> 0],
   turns_left |-> None,
   tiles_left |-> N_ROWS_AND_COLS * N_ROWS_AND_COLS - 1]

\* ------------------------------------------------ positions explored ----
\* Positions of a match in progress.  Each respects what the engine keeps
\* true from a deal on: kinds within the catalogue's counts, tiles_left the
\* number of face-down cards, turns_left None exactly while a card is
\* face-down, the two scores and the cards on the board adding up to the
\* catalogue's total.
Board(placed) == [c \in Cells |-> IF c \in DOMAIN placed THEN placed[c] ELSE NoCard]

CatalogueTotal ==
  LET RECURSIVE Sum(_)
      Sum(S) == IF S = {} THEN 0
                ELSE LET k == CHOOSE k \in S : TRUE
                     IN CARD_TYPES[k].count * CARD_TYPES[k].points + Sum(S \ {k})
  IN Sum(Kinds)

BoardPoints(cards) ==
  LET RECURSIVE Sum(_)
      Sum(S) == IF S = {} THEN 0
                ELSE LET c == CHOOSE c \in S : TRUE
                     IN CARD_TYPES[cards[c].kind].points + Sum(S \ {c})
  IN Sum({c \in Cells : cards[c] # NoCard})

FaceDown(cards) == Cardinality({c \in Cells : cards[c].facing = "down"})

\* humans: the points of humans so far; animals hold the rest of what has
\* left the board
Position(placed, turns, humans) ==
  LET cards == Board(placed)
  IN [to_play |-> "animals",
      team |-> "both",
      cards |-> cards,
      points |-> [t \in TEAMS |->
                    IF t = "humans" THEN humans
                    ELSE CatalogueTotal - BoardPoints(cards) - humans],
      turns_left |-> turns,
      tiles_left |-> FaceDown(cards)]

\* reveal phase, one card left to reveal: captures, a blocked line, a hunter
\* facing away from its prey
PosCapture ==
  Position(<<0, 3>> :> Card("duck", "up", "none") @@
           <<1, 3>> :> Card("hunter", "up", "right") @@
           <<3, 3>> :> Card("fox", "up", "none") @@
           <<0, 4>> :> Card("pheasant", "down", "none"), None, 80)

\* reveal phase: slow kinds and a tree
PosSlow ==
  Position(<<0, 3>> :> Card("tree", "up", "oak") @@
           <<2, 3>> :> Card("lumberjack", "up", "none") @@
           <<3, 3>> :> Card("bear", "up", "none") @@
           <<0, 4>> :> Card("hunter", "down", "down"), None, 80)

\* endgame, one turn (two half-turns) left
PosEndgame ==
  Position(<<0, 3>> :> Card("fox", "up", "none") @@
           <<0, 4>> :> Card("hunter", "up", "down") @@
           <<2, 3>> :> Card("bear", "up", "none") @@
           <<3, 3>> :> Card("duck", "up", "none"), <<2>>, 80)

Positions == {PosCapture, PosSlow, PosEndgame}

\* the cells the callers name in the operations explored
ProbeCells == {<<0, 3>>, <<1, 3>>, <<2, 3>>, <<3, 3>>, <<0, 4>>}

\* ----------------------------------------------------------- state ----
VARIABLES
  game,        \* the engine under test
  peer,        \* an engine with the other team designation, replaying game
  send_queue,  \* NetworkedHalali.send_queue of game
  last,        \* the last call: operation, arguments, outcome, state before,
               \* who made it (by: the caller, or in networked play the
               \* host's or the client's message handler, with the message
               \* handled and the host's response), whether its failure
               \* went back to whoever asked (reported), what a call of
               \* available_moves yielded, and (prev_ok) the
               \* last call before it that succeeded
  nops,        \* successful operations so far
  \* networked play: game is the host's engine (MPServerHalali), send_queue
  \* its outgoing queue, peer the joining side's engine (MPClientHalali)
  recv_queue,  \* MPServerHalali.recv_queue
  client_send, \* MPClientHalali.send_queue
  client_recv, \* MPClientHalali.recv_queue
  to_server,   \* bytes written by the joining side, not yet read by the host
  to_client,   \* bytes written by the host, not yet read by the joining side
  server_pc,   \* networking.server: "accept", "recv" or "respond" (in send.get)
  thread_pc,   \* networking.client: "idle" (polling send) or "await" (in conn.recv)
  client_pc,   \* MPClientHalali: "absent", "hs1", "hs2" (the two blocking
               \* reads of __init__), "run" or "crashed"
  pings,       \* pings sent so far
  log,         \* networked play, what has happened so far: the operations
               \* each side queued for the other (host_sent, client_sent)
               \* and took from the other (client_got, host_got), those
               \* of the host's that the joining side applied, the
               \* request the server thread is answering (serving), the
               \* pairs of request and reply it wrote (replies), and the
               \* sides whose receive loop queued ["disconnected"] (told)
  view,        \* the window's view: the GameView or a GameOverView
  conn,        \* the TCP connection: "none", "up" or "lost"
  \* find_server
  server,      \* the address the browser's handler resolved, or None
  polls,       \* iterations of the polling loop begun
  find_pc,     \* "off", "loop" (at `for`), "check" (at `if server`),
               \* "sleep" or "done"
  found,       \* what find_server returned
  clock        \* pyglet.clock: calls of move_for_opponent scheduled

net == <<recv_queue, client_send, client_recv, to_server, to_client,
         server_pc, thread_pc, client_pc, pings>>
disc == <<server, polls, find_pc, found>>
vars == <<game, peer, send_queue, last, nops, net, log, view, conn, disc,
         clock>>

Networked(g) == g.team # "both"

Msg(tag, args) == [tag |-> tag, args |-> args]

\* a null response, and JSON null on the wire
NoneMsg == Msg("None", << >>)

NoCall(g) ==
  [op |-> "none", src |-> <<0, 0>>, dst |-> <<0, 0>>, for_enemy |-> FALSE,
   res |-> OK, replay |-> "none", pre |-> g, preq |-> << >>,
   by |-> "none", reported |-> FALSE, msg |-> NoneMsg, reply |-> NoneMsg,
   yielded |-> << >>,
   prev_ok |-> [op |-> "none", src |-> <<0, 0>>, dst |-> <<0, 0>>]]

\* nobody has joined: the host's server thread waits in accept
NoPeerYet ==
  /\ recv_queue = << >>
  /\ client_send = << >>
  /\ client_recv = << >>
  /\ to_server = << >>
  /\ to_client = << >>
  /\ server_pc = "accept"
  /\ thread_pc = "idle"
  /\ client_pc = "absent"
  /\ pings = 0

NoLog ==
  [host_sent |-> << >>, client_got |-> << >>,
   client_sent |-> << >>, host_got |-> << >>,
   client_applied |-> << >>,
   serving |-> "none", replies |-> << >>, told |-> {}]

\* ui.GameView.__init__, the view of a match: _exits_added, and the exit
\* sprites in place_list
GameView == [name |-> "GameView", exits_added |-> FALSE, exits |-> 0]

\* GameView.add_exits: four sprites with is_exit appended to place_list
add_exits(v) == [v EXCEPT !.exits_added = TRUE, !.exits = @ + 4]

\* a plausible slip: >= for >, a tie going to Animals
GameOverView_tie(points) ==
  [name |-> "GameOverView",
   points |-> points,
   winner |-> IF points["animals"] >= points["humans"] THEN "Animals"
              ELSE "Humans"]

\* ui.GameOverView.__init__(points): self.points, self.winner
GameOverView(points) ==
  [name |-> "GameOverView",
   points |-> points,
   winner |-> IF points["animals"] > points["humans"] THEN "Animals"
              ELSE "Humans"]

\* the window shows the match; nothing has been logged
MatchView ==
  /\ log = NoLog
  /\ view = GameView
  /\ conn = "none"

\* no call of move_for_opponent is scheduled
NothingScheduled == clock = 0

\* find_server is not running
NotSearching ==
  /\ server = << >>
  /\ polls = 0
  /\ find_pc = "off"
  /\ found = << >>

\* SPHalali / MPServerHalali: self.team = random.choice(["animals", "humans"])
Init ==
  /\ \E t \in TEAMS \cup {"both"} :
       \/ game = [NewHalali(FixedPile, TRUE) EXCEPT !.team = t]
       \/ \E p \in Positions, tp \in TEAMS :
            game = [p EXCEPT !.team = t, !.to_play = tp]
  /\ peer = IF Networked(game) THEN [game EXCEPT !.team = Other(game.team)]
            ELSE game
  /\ send_queue = << >>
  /\ last = NoCall(game)
  /\ nops = 0
  /\ NoPeerYet
  /\ MatchView
  /\ NotSearching
  /\ NothingScheduled

\* a plausible slip: the message queued for peer-reported operations too
Put_echo(q, for_enemy, msg) == Append(q, msg)

\* if not for_enemy: self.send_queue.put(msg)
Put(q, for_enemy, msg) == IF ~for_enemy THEN Append(q, msg) ELSE q

\* a call of attempt_<op> on game with outcome r; msg is what the networked
\* wrapper transmits, rp the outcome of the same operation on peer
Call(op, src, dst, for_enemy, r, msg, rp) ==
  /\ nops < MaxOps
  /\ last.res # TypeError
  /\ game' = r.g
  /\ send_queue' = IF Networked(game) /\ r.res = OK
                     THEN Put(send_queue, for_enemy, msg) ELSE send_queue
  /\ peer' = IF Networked(game) /\ r.res = OK THEN rp.g ELSE peer
  /\ last' = [op |-> op, src |-> src, dst |-> dst, for_enemy |-> for_enemy,
              res |-> r.res,
              replay |-> IF Networked(game) /\ r.res = OK THEN rp.res ELSE "none",
              pre |-> game, preq |-> send_queue,
              by |-> "caller", reported |-> r.res # OK,
              msg |-> msg, reply |-> NoneMsg,
              yielded |-> << >>,
              prev_ok |-> IF last.op # "none" /\ last.res = OK
                            THEN [op |-> last.op, src |-> last.src, dst |-> last.dst]
                            ELSE last.prev_ok]
  /\ nops' = IF r.res = OK THEN nops + 1 ELSE nops
  /\ UNCHANGED <<net, log, view, conn, disc, clock>>

Reveal ==
  \E location \in ProbeCells, for_enemy \in BOOLEAN :
    Call("reveal", location, location, for_enemy,
         attempt_reveal(game, location, for_enemy),
         Msg("reveal", <<location>>),
         attempt_reveal(peer, location, ~for_enemy))

Move ==
  \E card_loc \in ProbeCells, target_loc \in ProbeCells, for_enemy \in BOOLEAN :
    Call("move", card_loc, target_loc, for_enemy,
         attempt_move(game, card_loc, target_loc, for_enemy),
         Msg("move", <<card_loc, target_loc>>),
         attempt_move(peer, card_loc, target_loc, ~for_enemy))

Rescue ==
  \E location \in ProbeCells, for_enemy \in BOOLEAN :
    Call("rescue", location, location, for_enemy,
         attempt_rescue(game, location, for_enemy),
         Msg("rescue", <<location>>),
         attempt_rescue(peer, location, ~for_enemy))

Next == Reveal \/ Move \/ Rescue

Spec == Init /\ [][Next]_vars

\* ---------------------------------------------------- networked play ----
\* the cells the two players name in networked play
NetCells == {<<0, 3>>, <<0, 4>>, <<1, 3>>}

CallOf(op, src, dst) == [op |-> op, src |-> src, dst |-> dst]

Attempt(g, call, for_enemy) ==
  CASE call.op = "reveal" -> attempt_reveal(g, call.src, for_enemy)
    [] call.op = "rescue" -> attempt_rescue(g, call.src, for_enemy)
    [] call.op = "move" -> attempt_move(g, call.src, call.dst, for_enemy)

\* ["move", card_loc, target_loc], ["reveal", location], ["rescue", location]
MsgOf(call) ==
  IF call.op = "move" THEN Msg("move", <<call.src, call.dst>>)
  ELSE Msg(call.op, <<call.src>>)

\* the match statement's destructuring of an operation message
CallOfMsg(msg) ==
  IF msg.tag = "move" THEN CallOf("move", msg.args[1], msg.args[2])
  ELSE CallOf(msg.tag, msg.args[1], msg.args[1])

GameOver(g) == g.turns_left # None /\ g.turns_left[1] <= 0

\* what a player can ask of the engine through the view: a press on a
\* face-down card reveals it; a face-up card of a kind the team to play may
\* move is picked up and dropped on a cell (move) or, once the exits exist,
\* on an exit (rescue); nothing when it is not the player's turn
UICalls(g, cells) ==
  IF ~can_play(g) \/ GameOver(g) THEN {}
  ELSE
    {CallOf("reveal", c, c) : c \in {c \in cells : g.cards[c].facing = "down"}}
    \cup
    {CallOf("move", c[1], c[2]) :
       c \in {c \in cells \X cells :
                /\ g.cards[c[1]].facing = "up"
                /\ g.cards[c[1]].kind \in MOVABLE_FOR[g.to_play]}}
    \cup
    {CallOf("rescue", c, c) :
       c \in {c \in cells :
                /\ g.turns_left # None
                /\ g.cards[c].facing = "up"
                /\ g.cards[c].kind \in MOVABLE_FOR[g.to_play]}}

Wrong(tag) ==
  CASE tag = "move" -> "wrong move"
    [] tag = "reveal" -> "wrong reveal"
    [] tag = "rescue" -> "wrong rescue"

\* MPServerHalali.update, the match on the message: the engine afterwards
\* and the response.  The status and cards responses hold references to
\* self.points and self.cards; their content is fixed when the server
\* thread serialises them (Serialise).  Only InvalidMove is caught: an
\* IndexError leaves update before a response is made
HostHandle(g, msg) ==
  CASE msg.tag = "status" ->
         [g |-> g, res |-> "none",
          response |-> Msg("status", <<[to_play |-> g.to_play,
                                        client_team |-> Other(g.team),
                                        version |-> VERSION]>>)]
    [] msg.tag = "cards" ->
         [g |-> g, res |-> "none", response |-> Msg("cards", << >>)]
    [] msg.tag \in {"ping", "disconnected"} ->
         [g |-> g, res |-> "none", response |-> NoneMsg]
    [] msg.tag \in {"move", "reveal", "rescue"} ->
         LET r == Attempt(g, CallOfMsg(msg), TRUE)
         IN [g |-> r.g, res |-> r.res,
             response |-> IF r.res = OK THEN Msg("ok", << >>)
                          ELSE IF r.res = IndexError THEN NoneMsg
                          ELSE Msg("FIXME", <<Wrong(msg.tag), r.res>>)]

\* json.dumps(response) in the server thread: self.points and self.cards
\* are read at this moment
Serialise(msg, g) ==
  CASE msg.tag = "status" ->
         Msg("status", <<[to_play |-> msg.args[1].to_play,
                          client_team |-> msg.args[1].client_team,
                          points |-> g.points,
                          version |-> msg.args[1].version]>>)
    [] msg.tag = "cards" -> Msg("cards", <<g.cards>>)
    [] OTHER -> msg

\* a plausible slip: the status adopted before the versions are compared
ClientHandle_adoptfirst(g, msg) ==
  IF msg.tag = "status"
    THEN LET status == msg.args[1]
         IN [g |-> [g EXCEPT !.to_play = status.to_play,
                             !.team = status.client_team,
                             !.points = status.points],
             res |-> IF VERSION # status.version THEN "Version mismatch!"
                     ELSE OK,
             raised |-> VERSION # status.version]
    ELSE [g |-> g, res |-> "none", raised |-> FALSE]

\* MPClientHalali.handle_response, the match on the message: the engine
\* afterwards, the outcome of the operation it applied (if any) and whether
\* the call raised RuntimeError; InvalidMove is caught and passed over
ClientHandle(g, msg) ==
  CASE msg.tag = "status" ->
         LET status == msg.args[1]
         IN IF VERSION # status.version
              THEN [g |-> g, res |-> "Version mismatch!", raised |-> TRUE]
              ELSE [g |-> [g EXCEPT
                             !.to_play = status.to_play,
                             !.team = status.client_team,
                             !.points = status.points,
                             !.turns_left =
                                IF "turns_left" \in DOMAIN status
                                  THEN status.turns_left ELSE None],
                    res |-> OK, raised |-> FALSE]
    [] msg.tag \in {"ok", "None", "disconnected"} ->
         [g |-> g, res |-> "none", raised |-> FALSE]
    [] msg.tag = "cards" ->
         [g |-> [g EXCEPT !.cards = msg.args[1]],
          res |-> "none", raised |-> FALSE]
    [] msg.tag \in {"move", "reveal", "rescue"} ->
         LET r == Attempt(g, CallOfMsg(msg), TRUE)
         IN [g |-> r.g, res |-> r.res, raised |-> FALSE]
    [] OTHER -> [g |-> g, res |-> "none", raised |-> TRUE]

\* the record of an operation message handled by a side: by whom, the
\* outcome, and whether a failure was answered with an error (the host's
\* FIXME response, the client's RuntimeError); the joining side's handling
\* of a status response and of a message it does not know is recorded too
Handled(msg, by, g, q, res, reply, reported) ==
  IF msg.tag \in {"move", "reveal", "rescue"}
    THEN [op |-> CallOfMsg(msg).op, src |-> CallOfMsg(msg).src,
          dst |-> CallOfMsg(msg).dst, for_enemy |-> TRUE, res |-> res,
          replay |-> "none", pre |-> g, preq |-> q,
          by |-> by, reported |-> reported, msg |-> msg, reply |-> reply,
          yielded |-> << >>, prev_ok |-> last.prev_ok]
    ELSE IF by = "client" /\ (msg.tag = "status" \/ reported)
      THEN [op |-> IF msg.tag = "status" THEN "status" ELSE "unknown",
            src |-> <<0, 0>>, dst |-> <<0, 0>>,
            for_enemy |-> FALSE, res |-> res,
            replay |-> "none", pre |-> g, preq |-> q,
            by |-> by, reported |-> reported, msg |-> msg, reply |-> reply,
            yielded |-> << >>, prev_ok |-> last.prev_ok]
    ELSE last

\* an operation message noted in one of the lists of log
Logged(l, field, msg) ==
  IF msg.tag \in {"move", "reveal", "rescue"}
    THEN [l EXCEPT ![field] = Append(@, CallOfMsg(msg))]
    ELSE l

\* a reply noted with the request it was written in answer to; the list
\* is long enough for the handshake and every ping and operation counted
Replied(l, response) ==
  IF Len(l.replies) < MaxNetOps + MaxPings + 2
    THEN [l EXCEPT !.replies = Append(@, <<l.serving, response.tag>>)]
    ELSE l

\* an operation of the host's that the joining side's handler applied
Applied(l, msg, res) ==
  IF res = OK THEN Logged(l, "client_applied", msg) ELSE l

InitNet ==
  /\ \E t \in TEAMS : game = [NewHalali(FixedPile, TRUE) EXCEPT !.team = t]
  /\ peer = NewHalali(FixedPile, FALSE)
  /\ send_queue = << >>
  /\ last = NoCall(game)
  /\ nops = 0
  /\ NoPeerYet
  /\ MatchView
  /\ NotSearching
  /\ NothingScheduled

\* the host's player acts: NetworkedHalali.attempt_* with for_enemy=False
HostOp ==
  \E call \in UICalls(game, NetCells) :
    LET r == Attempt(game, call, FALSE)
    IN /\ nops < MaxNetOps
       /\ r.res = OK
       /\ game' = r.g
       /\ send_queue' = Append(send_queue, MsgOf(call))
       /\ nops' = nops + 1
       /\ log' = Logged(log, "host_sent", MsgOf(call))
       /\ UNCHANGED <<peer, last, net, view, conn, disc, clock>>

\* what is left of the window once an exception no handler catches has
\* left GameView.update and arcade.run()
Traceback(v) == [v EXCEPT !.name = "Traceback"]

\* MPServerHalali.update with a message waiting; send_queue.put(response)
\* is its last statement
HostUpdate ==
  /\ ~GameOver(game)
  /\ view.name # "Traceback"
  /\ recv_queue # << >>
  /\ LET h == HostHandle(game, Head(recv_queue))
     IN /\ game' = h.g
        /\ send_queue' = IF h.res = IndexError THEN send_queue
                         ELSE Append(send_queue, h.response)
        /\ view' = IF h.res = IndexError THEN Traceback(view) ELSE view
        /\ last' = Handled(Head(recv_queue), "host", game, send_queue,
                           h.res, h.response, h.response.tag = "FIXME")
  /\ recv_queue' = Tail(recv_queue)
  /\ log' = Logged(log, "host_got", Head(recv_queue))
  /\ UNCHANGED <<peer, nops, client_send, client_recv, to_server,
                 to_client, server_pc, thread_pc, client_pc, pings,
                 conn, disc, clock>>

\* networking.server: conn.recv, recv.put
ServerRecv ==
  /\ server_pc = "recv"
  /\ to_server # << >>
  /\ recv_queue' = Append(recv_queue, Head(to_server))
  /\ to_server' = Tail(to_server)
  /\ server_pc' = "respond"
  /\ log' = [log EXCEPT !.serving = Head(to_server).tag]
  /\ UNCHANGED <<game, peer, send_queue, last, nops, client_send, client_recv,
                 to_client, thread_pc, client_pc, pings, view, conn, disc, clock>>

\* a plausible slip: the outgoing queue a queue.LifoQueue
ServerRespond_lifo ==
  /\ server_pc = "respond"
  /\ send_queue # << >>
  /\ send_queue' = SubSeq(send_queue, 1, Len(send_queue) - 1)
  /\ IF send_queue[Len(send_queue)] = NoneMsg /\ Len(send_queue) > 1
       THEN UNCHANGED <<to_client, server_pc, log>>
       ELSE /\ to_client' = Append(to_client,
                                   Serialise(send_queue[Len(send_queue)], game))
            /\ server_pc' = "recv"
            /\ log' = Replied(log, send_queue[Len(send_queue)])
  /\ UNCHANGED <<game, peer, last, nops, recv_queue, client_send, client_recv,
                 to_server, thread_pc, client_pc, pings, view, conn, disc, clock>>

\* networking.server: send.get(); a null response is skipped when the queue
\* holds more, anything else is written to the socket
ServerRespond ==
  /\ server_pc = "respond"
  /\ send_queue # << >>
  /\ send_queue' = Tail(send_queue)
  /\ IF Head(send_queue) = NoneMsg /\ Len(send_queue) > 1
       THEN UNCHANGED <<to_client, server_pc, log>>
       ELSE /\ to_client' = Append(to_client, Serialise(Head(send_queue), game))
            /\ server_pc' = "recv"
            /\ log' = Replied(log, Head(send_queue))
  /\ UNCHANGED <<game, peer, last, nops, recv_queue, client_send, client_recv,
                 to_server, thread_pc, client_pc, pings, view, conn, disc, clock>>

\* MPClientHalali.__init__ up to the first blocking read; the client thread
\* connects and the server thread's accept returns
ClientJoin ==
  /\ client_pc = "absent"
  /\ peer' = NewHalali(FixedPile, FALSE)
  /\ client_send' = <<Msg("status", << >>), Msg("cards", << >>)>>
  /\ client_pc' = "hs1"
  /\ server_pc' = "recv"
  /\ conn' = "up"
  /\ UNCHANGED <<game, send_queue, last, nops, recv_queue, client_recv,
                 to_server, to_client, thread_pc, pings, log, view, disc, clock>>

\* networking.client: send.get, conn.sendall
ThreadSend ==
  /\ client_pc # "absent"
  /\ thread_pc = "idle"
  /\ client_send # << >>
  /\ to_server' = Append(to_server, Head(client_send))
  /\ client_send' = Tail(client_send)
  /\ thread_pc' = "await"
  /\ UNCHANGED <<game, peer, send_queue, last, nops, recv_queue, client_recv,
                 to_client, server_pc, client_pc, pings, log, view, conn, disc, clock>>

\* networking.client: conn.recv, recv.put
ThreadRecv ==
  /\ thread_pc = "await"
  /\ to_client # << >>
  /\ client_recv' = Append(client_recv, Head(to_client))
  /\ to_client' = Tail(to_client)
  /\ thread_pc' = "idle"
  /\ UNCHANGED <<game, peer, send_queue, last, nops, recv_queue, client_send,
                 to_server, server_pc, client_pc, pings, log, view, conn, disc, clock>>

\* MPClientHalali.__init__: handle_response(None, block=True), twice
ClientHandshake ==
  /\ client_pc \in {"hs1", "hs2"}
  /\ client_recv # << >>
  /\ LET h == ClientHandle(peer, Head(client_recv))
     IN /\ peer' = h.g
        /\ client_pc' = IF h.raised THEN "crashed"
                        ELSE IF client_pc = "hs1" THEN "hs2" ELSE "run"
        /\ last' = Handled(Head(client_recv), "client", peer, client_send,
                           h.res, NoneMsg, h.raised)
  /\ client_recv' = Tail(client_recv)
  /\ log' = Applied(Logged(log, "client_got", Head(client_recv)),
                    Head(client_recv),
                    ClientHandle(peer, Head(client_recv)).res)
  /\ UNCHANGED <<game, send_queue, nops, recv_queue, client_send,
                 to_server, to_client, server_pc, thread_pc, pings,
                 view, conn, disc, clock>>

\* MPClientHalali.update: a ping when half a second has passed, then
\* handle_response without blocking
ClientUpdate ==
  \E ping \in BOOLEAN :
    /\ client_pc = "run"
    /\ ~GameOver(peer)
    /\ ping => pings < MaxPings
    /\ ping \/ client_recv # << >>
    /\ pings' = IF ping THEN pings + 1 ELSE pings
    /\ client_send' = IF ping THEN Append(client_send, Msg("ping", << >>))
                      ELSE client_send
    /\ IF client_recv = << >>
         THEN UNCHANGED <<peer, client_recv, client_pc, last, log>>
         ELSE LET h == ClientHandle(peer, Head(client_recv))
              IN /\ peer' = h.g
                 /\ client_pc' = IF h.raised THEN "crashed" ELSE "run"
                 /\ client_recv' = Tail(client_recv)
                 /\ last' = Handled(Head(client_recv), "client", peer,
                                    client_send, h.res, NoneMsg, h.raised)
                 /\ log' = Applied(Logged(log, "client_got", Head(client_recv)),
                                   Head(client_recv), h.res)
    /\ UNCHANGED <<game, send_queue, nops, recv_queue, to_server,
                   to_client, server_pc, thread_pc, view, conn, disc, clock>>

\* the joining player acts: NetworkedHalali.attempt_* with for_enemy=False
ClientOp ==
  \E call \in UICalls(peer, NetCells) :
    LET r == Attempt(peer, call, FALSE)
    IN /\ client_pc = "run"
       /\ nops < MaxNetOps
       /\ r.res = OK
       /\ peer' = r.g
       /\ client_send' = Append(client_send, MsgOf(call))
       /\ nops' = nops + 1
       /\ log' = Logged(log, "client_sent", MsgOf(call))
       /\ UNCHANGED <<game, send_queue, last, recv_queue, client_recv,
                      to_server, to_client, server_pc, thread_pc, client_pc,
                      pings, view, conn, disc, clock>>

\* the connection is lost (the other process is killed, the network fails);
\* what was written before can still be read
ConnLost ==
  /\ conn = "up"
  /\ conn' = "lost"
  /\ UNCHANGED <<game, peer, send_queue, last, nops, net, log, view, disc, clock>>

\* networking.server: conn.recv returns no bytes; recv.put(["disconnected"])
\* and return
ServerEOF ==
  /\ conn = "lost"
  /\ server_pc = "recv"
  /\ to_server = << >>
  /\ recv_queue' = Append(recv_queue, Msg("disconnected", << >>))
  /\ server_pc' = "closed"
  /\ log' = [log EXCEPT !.told = @ \cup {"host"}]
  /\ UNCHANGED <<game, peer, send_queue, last, nops, client_send, client_recv,
                 to_server, to_client, thread_pc, client_pc, pings,
                 view, conn, disc, clock>>

\* networking.client: conn.recv returns no bytes; return
ThreadEOF ==
  /\ conn = "lost"
  /\ thread_pc = "await"
  /\ to_client = << >>
  /\ thread_pc' = "closed"
  /\ UNCHANGED <<game, peer, send_queue, last, nops, recv_queue, client_send,
                 client_recv, to_server, to_client, server_pc, client_pc,
                 pings, log, view, conn, disc, clock>>

NextNet ==
  \/ HostOp
  \/ HostUpdate
  \/ ServerRecv
  \/ ServerRespond
  \/ ClientJoin
  \/ ThreadSend
  \/ ThreadRecv
  \/ ClientHandshake
  \/ ClientUpdate
  \/ ClientOp
  \/ ConnLost
  \/ ServerEOF
  \/ ThreadEOF

SpecNet == InitNet /\ [][NextNet]_vars

\* ------------------------------------------------- the two handlers ----
\* The message handlers of the two sides, each fed from its socket.  What
\* the other end writes is left open: the host's handler takes any
\* operation request (the joining side's board may differ from the host's,
\* or the peer may run another build), the joining side's handler any
\* status response.
WireRequests ==
  {Msg("reveal", <<c>>) : c \in NetCells}
  \cup {Msg("rescue", <<c>>) : c \in NetCells}
  \cup {Msg("move", <<c[1], c[2]>>) : c \in NetCells \X NetCells}

\* the build of the host that answers
Versions == {VERSION, "another build"}

WirePoints == [t \in TEAMS |-> IF t = "humans" THEN 7 ELSE 0]

\* with and without the optional turns_left
WireStatuses ==
  {Msg("status", <<[to_play |-> "humans", client_team |-> "animals",
                    points |-> WirePoints, version |-> v]>>) :
     v \in Versions}
  \cup
  {Msg("status", <<[to_play |-> "humans", client_team |-> "animals",
                    points |-> WirePoints, version |-> v,
                    turns_left |-> <<3>>]>>) :
     v \in Versions}

\* a match under way, both sides with the same board, nothing in flight,
\* the keepalives explored already sent and answered
InitWire ==
  /\ \E t \in TEAMS, tp \in TEAMS :
       game = [PosCapture EXCEPT !.team = t, !.to_play = tp]
  /\ peer = [game EXCEPT !.team = Other(game.team)]
  /\ send_queue = << >>
  /\ last = NoCall(game)
  /\ nops = 0
  /\ recv_queue = << >>
  /\ client_send = << >>
  /\ client_recv = << >>
  /\ to_server = << >>
  /\ to_client = << >>
  /\ server_pc = "recv"
  /\ thread_pc = "idle"
  /\ client_pc = "run"
  /\ pings = MaxPings
  /\ MatchView
  /\ NotSearching
  /\ NothingScheduled

\* networking.client: conn.sendall of an operation request
WireRequest ==
  \E msg \in WireRequests :
    /\ nops < MaxWire
    /\ thread_pc = "idle"
    /\ client_send = << >>
    /\ to_server' = Append(to_server, msg)
    /\ thread_pc' = "await"
    /\ nops' = nops + 1
    /\ UNCHANGED <<game, peer, send_queue, last, recv_queue, client_send,
                   client_recv, to_client, server_pc, client_pc, pings,
                   log, view, conn, disc, clock>>

\* networking.client: recv.put of a status response read off the socket
WireStatus ==
  \E msg \in WireStatuses :
    /\ nops < MaxWire
    /\ client_pc = "run"
    /\ client_recv' = Append(client_recv, msg)
    /\ nops' = nops + 1
    /\ UNCHANGED <<game, peer, send_queue, last, recv_queue, client_send,
                   to_server, to_client, server_pc, thread_pc, client_pc,
                   pings, log, view, conn, disc, clock>>

NextWire ==
  \/ WireRequest
  \/ WireStatus
  \/ ServerRecv
  \/ HostUpdate
  \/ ServerRespond
  \/ ThreadRecv
  \/ ClientUpdate

SpecWire == InitWire /\ [][NextWire]_vars

\* ------------------------------------------- requests off the grid ----
\* The host's handler fed with operation requests whose coordinates are
\* any integers json.loads can deliver: on the grid, just below it, just
\* above it.
MaxGrid == 1

GridLocations == {<<0 - 1, Mid>>, <<0, Mid>>, <<1, Mid>>,
                  <<N_ROWS_AND_COLS, Mid>>, <<Mid, 0 - 1>>}

GridRequests ==
  {Msg("reveal", <<c>>) : c \in GridLocations}
  \cup {Msg("rescue", <<c>>) : c \in GridLocations}
  \cup {Msg("move", <<c[1], c[2]>>) : c \in GridLocations \X GridLocations}

\* the host with a fresh deal or a match under way, the peer on turn or not
InitGrid ==
  /\ \E p \in {NewHalali(FixedPile, TRUE), PosCapture, PosEndgame},
        t \in TEAMS, tp \in TEAMS :
       game = [p EXCEPT !.team = t, !.to_play = tp]
  /\ peer = [game EXCEPT !.team = Other(game.team)]
  /\ send_queue = << >>
  /\ last = NoCall(game)
  /\ nops = 0
  /\ recv_queue = << >>
  /\ client_send = << >>
  /\ client_recv = << >>
  /\ to_server = << >>
  /\ to_client = << >>
  /\ server_pc = "recv"
  /\ thread_pc = "idle"
  /\ client_pc = "run"
  /\ pings = MaxPings
  /\ MatchView
  /\ NotSearching
  /\ NothingScheduled

\* networking.client: conn.sendall of an operation request
GridRequest ==
  \E msg \in GridRequests :
    /\ nops < MaxGrid
    /\ thread_pc = "idle"
    /\ to_server' = Append(to_server, msg)
    /\ thread_pc' = "await"
    /\ nops' = nops + 1
    /\ UNCHANGED <<game, peer, send_queue, last, recv_queue, client_send,
                   client_recv, to_client, server_pc, client_pc, pings,
                   log, view, conn, disc, clock>>

NextGrid ==
  \/ GridRequest
  \/ ServerRecv
  \/ HostUpdate
  \/ ServerRespond
  \/ ThreadRecv

SpecGrid == InitGrid /\ [][NextGrid]_vars

\* ------------------------------------- a connection that stays up ----
\* MPClientHalali.update for as long as the match runs: a ping whenever
\* half a second has passed (explored: whenever the last one has been
\* sent), then handle_response without blocking
ClientPoll(ping) ==
  /\ client_pc = "run"
  /\ ~GameOver(peer)
  /\ ping => client_send = << >>
  /\ ping \/ client_recv # << >>
  /\ client_send' = IF ping THEN Append(client_send, Msg("ping", << >>))
                    ELSE client_send
  /\ IF client_recv = << >>
       THEN UNCHANGED <<peer, client_recv, client_pc, last, log>>
       ELSE LET h == ClientHandle(peer, Head(client_recv))
            IN /\ peer' = h.g
               /\ client_pc' = IF h.raised THEN "crashed" ELSE "run"
               /\ client_recv' = Tail(client_recv)
               /\ last' = Handled(Head(client_recv), "client", peer,
                                  client_send, h.res, NoneMsg, h.raised)
               /\ log' = Applied(Logged(log, "client_got", Head(client_recv)),
                                 Head(client_recv), h.res)
  /\ UNCHANGED <<game, send_queue, nops, recv_queue, to_server,
                 to_client, server_pc, thread_pc, pings, view, conn, disc, clock>>

NextLive ==
  \/ HostOp
  \/ HostUpdate
  \/ ServerRecv
  \/ ServerRespond
  \/ ClientJoin
  \/ ThreadSend
  \/ ThreadRecv
  \/ ClientHandshake
  \/ ClientPoll(TRUE)
  \/ ClientPoll(FALSE)

\* both threads and both windows' polls keep running, and the joining side
\* joins; the host's player acts when it likes, the joining player waits
Scheduling ==
  /\ WF_vars(HostUpdate)
  /\ WF_vars(ServerRecv)
  /\ WF_vars(ServerRespond)
  /\ WF_vars(ClientJoin)
  /\ WF_vars(ThreadSend)
  /\ WF_vars(ThreadRecv)
  /\ WF_vars(ClientHandshake)
  /\ WF_vars(ClientPoll(TRUE))
  /\ WF_vars(ClientPoll(FALSE))

SpecLive == InitNet /\ [][NextLive]_vars /\ Scheduling

\* ----------------------------------------------------- find_server ----
\* range(20)
POLL_ATTEMPTS == 20

\* (socket.inet_ntoa(info.addresses[0]), info.port) of the hosts advertising
Addresses == {<<"10.0.0.2", 58008>>, <<"10.0.0.3", 58008>>, <<"127.0.0.1", 58008>>}

\* the joining side's thread has not called find_server yet
InitFind ==
  /\ game = [NewHalali(FixedPile, TRUE) EXCEPT !.team = "animals"]
  /\ peer = game
  /\ send_queue = << >>
  /\ last = NoCall(game)
  /\ nops = 0
  /\ NoPeerYet
  /\ MatchView
  /\ NotSearching
  /\ NothingScheduled

\* server = None; ServiceBrowser(...); try: for ...
FindStart ==
  /\ find_pc = "off"
  /\ server' = None
  /\ polls' = 0
  /\ find_pc' = "loop"
  /\ UNCHANGED <<game, peer, send_queue, last, nops, net, log, view, conn, clock,
                 found>>

\* the browser's thread calls handler for a service that was added; a
\* service whose info cannot be fetched leaves server as it is
FindResolve ==
  \E info \in Addresses :
    /\ find_pc \in {"loop", "check", "sleep"}
    /\ server' = info
    /\ UNCHANGED <<game, peer, send_queue, last, nops, net, log, view, conn, clock,
                   polls, find_pc, found>>

\* a loop that never runs out of iterations
FindLoop_endless ==
  /\ find_pc = "loop"
  /\ polls' = Min2(polls + 1, POLL_ATTEMPTS)
  /\ find_pc' = "check"
  /\ UNCHANGED found
  /\ UNCHANGED <<game, peer, send_queue, last, nops, net, log, view, conn, clock,
                 server>>

\* for _ in range(20): the next iteration, or the loop is exhausted and,
\* after zc.close(), the function ends without a return statement
FindLoop ==
  /\ find_pc = "loop"
  /\ IF polls < POLL_ATTEMPTS
       THEN /\ polls' = polls + 1
            /\ find_pc' = "check"
            /\ UNCHANGED found
       ELSE /\ find_pc' = "done"
            /\ found' = None
            /\ UNCHANGED polls
  /\ UNCHANGED <<game, peer, send_queue, last, nops, net, log, view, conn, clock,
                 server>>

\* if server: return server (and zc.close() on the way out)
FindCheck ==
  /\ find_pc = "check"
  /\ IF server # None
       THEN /\ find_pc' = "done"
            /\ found' = server
       ELSE /\ find_pc' = "sleep"
            /\ UNCHANGED found
  /\ UNCHANGED <<game, peer, send_queue, last, nops, net, log, view, conn, clock,
                 server, polls>>

\* sleep(0.2)
FindSleep ==
  /\ find_pc = "sleep"
  /\ find_pc' = "loop"
  /\ UNCHANGED <<game, peer, send_queue, last, nops, net, log, view, conn, clock,
                 server, polls, found>>

\* the steps of find_server itself, once called
FindStep == FindLoop \/ FindCheck \/ FindSleep

NextFind ==
  \/ FindStart
  \/ FindResolve
  \/ FindLoop
  \/ FindCheck
  \/ FindSleep

\* the thread running find_server is scheduled again and again; nothing
\* is assumed about the browser's thread
SpecFind == InitFind /\ [][NextFind]_vars /\ WF_vars(FindStep)

\* -------------------------------------------------------- the deal ----
\* CARD_TYPES.items(): the kinds in the order the dict lists them
KindOrder ==
  <<"fox", "bear", "duck", "pheasant", "hunter", "lumberjack", "tree">>

\* data.get("variants")
Variants(kind) ==
  CASE kind = "hunter" -> <<"up", "down", "left", "right">>
    [] kind = "tree" -> <<"oak", "spruce">>
    [] OTHER -> << >>

\* for kind, data in CARD_TYPES.items(): for _ in range(data["count"]):
\* the kinds appended to result, before the shuffle
RECURSIVE KindsFrom(_)
KindsFrom(i) ==
  IF i > Len(KindOrder) THEN << >>
  ELSE [j \in 1..CARD_TYPES[KindOrder[i]].count |-> KindOrder[i]]
         \o KindsFrom(i + 1)

\* the outcomes of random.choice explored: the n-th card appended takes
\* variant number (a * n + b) mod len(variants)
Choices == {<<a, b>> : a \in 0..1, b \in 0..1}

\* result before the shuffle; an entry f"{kind}_{variant}", or kind alone,
\* is written as the pair that partition("_") makes of it (no kind has an
\* underscore in its name)
Appended(choice) ==
  LET kinds == KindsFrom(1)
  IN [n \in 1..Len(kinds) |->
        LET v == Variants(kinds[n])
        IN IF v = << >> THEN <<kinds[n], "none">>
           ELSE <<kinds[n], v[((choice[1] * n + choice[2]) % Len(v)) + 1]>>]

\* the outcomes of random.shuffle explored: position i of the shuffled
\* list takes the element at (i - 1) * stride + shift, counted round the
\* list; the strides have no factor in common with its length
Strides == {1, 5, 7}
Shifts == 0..(Len(KindsFrom(1)) - 1)

\* a plausible slip: drawing with replacement (random.choices) instead of
\* shuffling, so that an element can come up twice
Shuffled_sampling(result, stride, shift) ==
  [i \in 1..Len(result) |->
     result[(((i - 1) * 2 * stride + shift) % Len(result)) + 1]]

\* random.shuffle(result)
Shuffled(result, stride, shift) ==
  [i \in 1..Len(result) |->
     result[(((i - 1) * stride + shift) % Len(result)) + 1]]

generate_pile(choice, stride, shift) ==
  Shuffled(Appended(choice), stride, shift)

\* no engine yet
InitDeal ==
  /\ game = NewHalali(<< >>, FALSE)
  /\ peer = game
  /\ send_queue = << >>
  /\ last = NoCall(game)
  /\ nops = 0
  /\ NoPeerYet
  /\ MatchView
  /\ NotSearching
  /\ NothingScheduled

\* Halali(): a new engine with a pile dealt on its board
Deal ==
  \E choice \in Choices, stride \in Strides, shift \in Shifts :
    /\ last.op = "none"
    /\ game' = NewHalali(generate_pile(choice, stride, shift), TRUE)
    /\ peer' = game'
    /\ last' = [NoCall(game) EXCEPT !.op = "deal"]
    /\ UNCHANGED <<send_queue, nops, net, log, view, conn, disc, clock>>

NextDeal == Deal

SpecDeal == InitDeal /\ [][NextDeal]_vars

\* ------------------------------------------------- the end of a match ----
\* the endgame's last half-turn, the four cards of PosEndgame on the
\* board; the scores so far are level, or one card apart either way
OverScores == {68, 73, 78}

PosLastTurn(humans) ==
  Position(<<0, 3>> :> Card("fox", "up", "none") @@
           <<0, 4>> :> Card("hunter", "up", "down") @@
           <<2, 3>> :> Card("bear", "up", "none") @@
           <<3, 3>> :> Card("duck", "up", "none"), <<1>>, humans)

InitOver ==
  /\ \E humans \in OverScores, t \in TEAMS \cup {"both"}, tp \in TEAMS :
       game = [PosLastTurn(humans) EXCEPT !.team = t, !.to_play = tp]
  /\ peer = IF Networked(game) THEN [game EXCEPT !.team = Other(game.team)]
            ELSE game
  /\ send_queue = << >>
  /\ last = NoCall(game)
  /\ nops = 0
  /\ NoPeerYet
  /\ log = NoLog
  /\ view = add_exits(GameView)
  /\ conn = "none"
  /\ NotSearching
  /\ NothingScheduled

\* the GameView is the one that gets the mouse events
OverMove == view.name = "GameView" /\ Move

OverRescue == view.name = "GameView" /\ Rescue

\* a plausible slip: the exits added at every poll of the endgame
GameView_update_again ==
  /\ view.name = "GameView"
  /\ view' = IF GameOver(game) THEN GameOverView(game.points)
             ELSE IF game.turns_left # None THEN add_exits(view)
             ELSE view
  /\ view' # view
  /\ UNCHANGED <<game, peer, send_queue, last, nops, net, log, conn, disc, clock>>

\* GameView.update, a poll by the window that changes what it shows: the
\* exits are added once turns_left is set; self.game.update(self) raises
\* GameOver and the window shows GameOverView(self.game.points)
GameView_update ==
  /\ view.name = "GameView"
  /\ view' = IF GameOver(game) THEN GameOverView(game.points)
             ELSE IF game.turns_left # None /\ ~view.exits_added
               THEN add_exits(view)
             ELSE view
  /\ view' # view
  /\ UNCHANGED <<game, peer, send_queue, last, nops, net, log, conn, disc, clock>>

NextOver == OverMove \/ OverRescue \/ GameView_update

SpecOver == InitOver /\ [][NextOver]_vars

\* ------------------------------------------- the computer opponent ----
Range(seq) == {seq[i] : i \in DOMAIN seq}

\* the targets available_moves tries, in its order: the card's row
\* (horizontal), then its column (vertical)
Targets(location) ==
  [i \in 1..N_ROWS_AND_COLS |-> <<i - 1, location[2]>>]
  \o [i \in 1..N_ROWS_AND_COLS |-> <<location[1], i - 1>>]

\* a plausible slip: the vertical loop forgotten
available_moves_horizontal(g, location, for_enemy) ==
  LET tried == [i \in 1..N_ROWS_AND_COLS |-> <<i - 1, location[2]>>]
      Passes(t) == validate_move(g, location[1], location[2], t[1], t[2],
                                 for_enemy) = OK
  IN [res |-> OK, yielded |-> SelectSeq(tried, Passes)]

\* Halali.available_moves(location, for_enemy): the generator yields the
\* targets validate_move accepts and skips those it raises InvalidMove
\* for; any other exception ends it (res) after what it had yielded
available_moves(g, location, for_enemy) ==
  LET tried == Targets(location)
      v(i) == validate_move(g, location[1], location[2],
                            tried[i][1], tried[i][2], for_enemy)
      raised == {i \in DOMAIN tried : v(i) = TypeError}
      reached == IF raised = {} THEN tried
                 ELSE SubSeq(tried, 1,
                             (CHOOSE i \in raised : \A j \in raised : i <= j) - 1)
      Passes(t) == validate_move(g, location[1], location[2], t[1], t[2],
                                 for_enemy) = OK
  IN [res |-> IF raised = {} THEN OK ELSE TypeError,
      yielded |-> SelectSeq(reached, Passes)]

\* an entry of possible_moves: ("reveal", source, 0), ("move", source,
\* target, 2 or 1), ("rescue", source, 3); the last element is prio
Candidate(op, src, dst, prio) ==
  [op |-> op, src |-> src, dst |-> dst, prio |-> prio]

\* the loop of move_for_opponent over product(range(7), repeat=2)
possible_moves(g) ==
  LET hidden == {c \in Cells : g.cards[c] # NoCard /\ g.cards[c].facing = "down"}
      movable == {c \in Cells :
                    /\ g.cards[c] # NoCard
                    /\ g.cards[c].facing # "down"
                    /\ g.cards[c].kind \in MOVABLE_FOR[Other(g.team)]}
  IN {Candidate("reveal", c, c, 0) : c \in hidden}
     \cup
     UNION {{Candidate("move", source, target,
                       IF g.cards[target] # NoCard THEN 2 ELSE 1) :
               target \in Range(available_moves(g, source, TRUE).yielded)} :
            source \in movable}
     \cup
     {Candidate("rescue", c, c, 3) : c \in
        {c \in movable :
           /\ g.turns_left # None
           /\ validate_rescue(g, c[1], c[2], TRUE) = OK}}

\* a plausible slip: the sort ascending, the first group the lowest
good_moves_ascending(moves) ==
  {m \in moves : \A n \in moves : m.prio <= n.prio}

\* possible_moves.sort(key=lambda m: -m[-1]); the first group of groupby
good_moves(moves) ==
  {m \in moves : \A n \in moves : n.prio <= m.prio}

\* all the opponent's pieces are gone: nothing hidden, nothing it may move
PosStuck ==
  Position(<<0, 3>> :> Card("tree", "up", "oak") @@
           <<1, 3>> :> Card("hunter", "up", "up") @@
           <<3, 3>> :> Card("tree", "up", "spruce"), <<4>>, 80)

\* the last piece the animals may move stands next to a hunter facing it
PosLastPrey ==
  Position(<<0, 3>> :> Card("duck", "up", "none") @@
           <<1, 3>> :> Card("hunter", "up", "left") @@
           <<3, 3>> :> Card("tree", "up", "spruce"), <<4>>, 80)

\* endgame, a slow piece of either team one cell away from an edge cell
\* that has an exit
PosSlowExit ==
  Position(<<1, 3>> :> Card("bear", "up", "none") @@
           <<3, 3>> :> Card("tree", "up", "oak") @@
           <<5, 3>> :> Card("lumberjack", "up", "none"), <<4>>, 80)

\* SPHalali.__init__: self.team = random.choice(["animals", "humans"])
\* a swap that hands the turn to the player schedules a call as well
Scheduled_always(g) == 1

\* SPHalali.__init__ and SPHalali._swap_teams: after the deal and after every
\* swap, if not self.can_play: pyglet.clock.schedule_once(move_for_opponent)
Scheduled(g) == IF ~can_play(g) THEN 1 ELSE 0

\* what a call of an attempt_* leaves on the clock: _swap_teams runs only
\* when the operation went through
AfterAttempt(r) == IF r.res = OK THEN Scheduled(r.g) ELSE 0

InitSP ==
  /\ \E p \in Positions \cup {PosStuck, PosLastPrey, PosSlowExit},
        t \in TEAMS, tp \in TEAMS :
       game = [p EXCEPT !.team = t, !.to_play = tp]
  /\ peer = game
  /\ send_queue = << >>
  /\ last = NoCall(game)
  /\ nops = 0
  /\ NoPeerYet
  /\ MatchView
  /\ NotSearching
  /\ clock = Scheduled(game)

\* the player's operation through the view
PlayerOp ==
  \E call \in UICalls(game, ProbeCells) :
    LET r == Attempt(game, call, FALSE)
    IN /\ nops < MaxOps
       /\ game' = r.g
       /\ peer' = r.g
       /\ last' = [NoCall(game) EXCEPT !.op = call.op, !.src = call.src,
                                       !.dst = call.dst, !.res = r.res,
                                       !.by = "caller",
                                       !.reported = r.res # OK]
       /\ nops' = IF r.res = OK THEN nops + 1 ELSE nops
       /\ clock' = clock + AfterAttempt(r)
       /\ UNCHANGED <<send_queue, net, log, view, conn, disc>>

\* SPHalali.move_for_opponent, the call the clock holds: it runs once and
\* leaves the clock; random.shuffle(good_moves); move = good_moves[0]; the
\* attempt with for_enemy=True, an InvalidMove caught
move_for_opponent ==
  /\ nops < MaxOps
  /\ clock > 0
  /\ IF possible_moves(game) = {}
       THEN /\ last' = [NoCall(game) EXCEPT !.by = "opponent", !.for_enemy = TRUE]
            /\ clock' = clock - 1
            /\ UNCHANGED <<game, peer, nops>>
       ELSE \E move \in good_moves(possible_moves(game)) :
              LET r == Attempt(game, CallOf(move.op, move.src, move.dst), TRUE)
              IN /\ game' = r.g
                 /\ peer' = r.g
                 /\ last' = [NoCall(game) EXCEPT !.op = move.op,
                                                 !.src = move.src,
                                                 !.dst = move.dst,
                                                 !.for_enemy = TRUE,
                                                 !.res = r.res,
                                                 !.by = "opponent"]
                 /\ nops' = IF r.res = OK THEN nops + 1 ELSE nops
                 /\ clock' = clock - 1 + AfterAttempt(r)
  /\ UNCHANGED <<send_queue, net, log, view, conn, disc>>

NextSP == PlayerOp \/ move_for_opponent

SpecSP == InitSP /\ [][NextSP]_vars

\* ------------------------------------------------ the enumeration ----
\* list(self.game.available_moves(location, for_enemy)): the view asks
\* where a card it picks up may go, the opponent heuristic asks for its own
List ==
  \E location \in ProbeCells, for_enemy \in BOOLEAN :
    LET r == available_moves(game, location, for_enemy)
    IN /\ last.res # TypeError
       /\ last' = [NoCall(game) EXCEPT !.op = "available_moves",
                                       !.src = location,
                                       !.for_enemy = for_enemy,
                                       !.res = r.res,
                                       !.by = "caller",
                                       !.yielded = r.yielded,
                                       !.prev_ok = last.prev_ok]
       /\ UNCHANGED <<game, peer, send_queue, nops, net, log, view, conn,
                      disc, clock>>

NextList == List \/ PlayerOp

SpecList == Init /\ [][NextList]_vars

\* ------------------------------------------------- a whole match ----
\* a single-player match in its reveal phase: a fresh deal, or a position
\* with one card left to reveal
InitMatch ==
  /\ \E p \in {NewHalali(FixedPile, TRUE), PosCapture, PosSlow},
        t \in TEAMS, tp \in TEAMS :
       game = [p EXCEPT !.team = t, !.to_play = tp]
  /\ peer = game
  /\ send_queue = << >>
  /\ last = NoCall(game)
  /\ nops = 0
  /\ NoPeerYet
  /\ MatchView
  /\ NotSearching
  /\ clock = Scheduled(game)

MatchOp == view.name = "GameView" /\ PlayerOp

NextMatch == MatchOp \/ move_for_opponent \/ GameView_update

SpecMatch == InitMatch /\ [][NextMatch]_vars

\* ------------------------------------------------ properties (Spec) ----
Called(op) == last.op = op
Succeeded(op) == last.op = op /\ last.res = OK
Mover == last.pre.cards[last.src]
Target == last.pre.cards[last.dst]

SameState(g, h) ==
  /\ g.cards = h.cards
  /\ g.points = h.points
  /\ g.to_play = h.to_play
  /\ g.tiles_left = h.tiles_left
  /\ g.turns_left = h.turns_left

\* the cells strictly between two cells of one row or one column
StrictlyBetween(a, b) ==
  {c \in Cells :
     \/ /\ a[2] = b[2] /\ c[2] = a[2]
        /\ \/ (a[1] < c[1] /\ c[1] < b[1])
           \/ (b[1] < c[1] /\ c[1] < a[1])
     \/ /\ a[1] = b[1] /\ c[1] = a[1]
        /\ \/ (a[2] < c[2] /\ c[2] < b[2])
           \/ (b[2] < c[2] /\ c[2] < a[2])}

Straight(a, b) == a # b /\ (a[1] = b[1] \/ a[2] = b[2])

Abs(n) == IF n < 0 THEN -n ELSE n
Steps(a, b) == Abs(a[1] - b[1]) + Abs(a[2] - b[2])

\* left/right along x, down/up along y
Travel(a, b) ==
  IF b[1] < a[1] THEN "left"
  ELSE IF b[1] > a[1] THEN "right"
  ELSE IF b[2] < a[2] THEN "down"
  ELSE "up"

\* the turn check of a call: a local call needs the engine's own turn, a
\* call for the enemy needs the other side's turn
TurnPasses(g, for_enemy) ==
  IF for_enemy THEN g.team # "both" /\ g.to_play # g.team
  ELSE g.team = "both" \/ g.to_play = g.team

\* C1: a reveal, move or rescue that fails leaves the board, both scores,
\* to_play, tiles_left and turns_left exactly as before the call, and puts
\* nothing on the outgoing queue of the networked wrapper.
C1_FailureLeavesStateUntouched ==
  (last.op \in {"reveal", "move", "rescue"} /\ last.res # OK) =>
     /\ game = last.pre
     /\ send_queue = last.preq

\* a networked engine with a message already queued rejects a reveal of a
\* face-up card
C1_Witness ==
  /\ Called("reveal")
  /\ last.res = "Can't reveal face-up card"
  /\ Networked(game)
  /\ Len(send_queue) > 0

\* no message in a queue or in flight, the join handshake done
Quiescent ==
  /\ client_pc = "run"
  /\ send_queue = << >> /\ recv_queue = << >>
  /\ client_send = << >> /\ client_recv = << >>
  /\ to_server = << >> /\ to_client = << >>
  /\ server_pc = "recv" /\ thread_pc = "idle"

\* C2: in networked play, whenever no message is in a queue or in flight,
\* the host's and the joining side's board, to_play, points, tiles_left and
\* turns_left are equal.
C2_EnginesAgreeWhenQuiescent == Quiescent => SameState(game, peer)

\* C3: a successful local operation, replayed on an engine with the other
\* team designation as an operation for the enemy, succeeds there too and
\* leaves both engines with the same board, points, to_play, tiles_left and
\* turns_left.
C3_ReplayRoundTrip ==
  (/\ last.op \in {"reveal", "move", "rescue"}
   /\ Networked(last.pre)
   /\ ~last.for_enemy
   /\ last.res = OK) =>
     /\ last.replay = OK
     /\ peer.team = Other(game.team)
     /\ SameState(game, peer)

\* a local capture by a team-owned piece was replayed on the peer
C3_Witness ==
  /\ Succeeded("move")
  /\ ~last.for_enemy
  /\ Networked(game)
  /\ Target # NoCard
  /\ CARD_TYPES[Mover.kind].team = game.team
  /\ last.replay = OK

\* C4: a move never succeeds diagonally, nor over an occupied cell strictly
\* between source and destination, nor for a tree.
C4_NoDiagonalNoJumpNoTree ==
  Succeeded("move") =>
     /\ Straight(last.src, last.dst)
     /\ \A c \in StrictlyBetween(last.src, last.dst) : last.pre.cards[c] = NoCard
     /\ Mover.kind # "tree"

\* a move over more than one cell succeeded while other cards were on the board
C4_Witness ==
  /\ Succeeded("move")
  /\ Steps(last.src, last.dst) >= 2
  /\ \E c \in Cells \ {last.src, last.dst} : last.pre.cards[c] # NoCard

\* C5: a move succeeds only for a face-up card that is a duck, a pheasant or
\* of a kind owned by the team whose turn it is, for local calls and for
\* calls for the enemy alike.
C5_MovablePieceOnly ==
  Succeeded("move") =>
     /\ Mover.facing = "up"
     /\ \/ Mover.kind \in {"duck", "pheasant"}
        \/ CARD_TYPES[Mover.kind].team = last.pre.to_play

\* a move of a team-owned piece applied for the enemy succeeded
C5_Witness ==
  /\ Succeeded("move")
  /\ last.for_enemy
  /\ CARD_TYPES[Mover.kind].team = last.pre.to_play

\* the case of C6: the team to play moves its own face-up piece along a
\* clear straight line onto a face-up piece that its kind eats (a slow kind
\* one cell, a hunter in the direction it faces)
OwnCapture ==
  /\ Called("move")
  /\ ~last.for_enemy
  /\ Straight(last.src, last.dst)
  /\ \A c \in StrictlyBetween(last.src, last.dst) : last.pre.cards[c] = NoCard
  /\ Mover # NoCard /\ Mover.facing = "up"
  /\ CARD_TYPES[Mover.kind].team = last.pre.to_play
  /\ Target # NoCard /\ Target.facing = "up"
  /\ Target.kind \in CARD_TYPES[Mover.kind].eats
  /\ CARD_TYPES[Mover.kind].slow => Steps(last.src, last.dst) = 1
  /\ Mover.kind = "hunter" => Travel(last.src, last.dst) = Mover.variant

\* C6: on a default (either-team) engine such a capture succeeds: the
\* target's points go to the acting team, the destination holds the mover,
\* the source is empty and to_play flips.
C6_DefaultEngineCapture ==
  (OwnCapture /\ last.pre.team = "both") =>
     /\ last.res = OK
     /\ game.points[last.pre.to_play] =
          last.pre.points[last.pre.to_play] + CARD_TYPES[Target.kind].points
     /\ game.cards[last.dst] = Mover
     /\ game.cards[last.src] = NoCard
     /\ game.to_play = Other(last.pre.to_play)

\* C7: every successful move of a bear or a lumberjack covers one cell.
C7_SlowMovesOneCell ==
  (Succeeded("move") /\ Mover.kind \in {"bear", "lumberjack"}) =>
     Steps(last.src, last.dst) <= 1

\* a slow piece moved
C7_Witness ==
  /\ Succeeded("move")
  /\ Mover.kind \in {"bear", "lumberjack"}

\* the case of C8: a hunter, every other condition of a move met, moves
\* onto a piece it eats
HunterCapture ==
  /\ Called("move")
  /\ TurnPasses(last.pre, last.for_enemy)
  /\ Straight(last.src, last.dst)
  /\ \A c \in StrictlyBetween(last.src, last.dst) : last.pre.cards[c] = NoCard
  /\ Mover # NoCard /\ Mover.kind = "hunter" /\ Mover.facing = "up"
  /\ last.pre.to_play = "humans"
  /\ Target # NoCard /\ Target.facing = "up"
  /\ Target.kind \in CARD_TYPES["hunter"].eats

\* C8: a capture by a hunter succeeds exactly when the direction of travel
\* is the hunter's variant; otherwise it fails with the directional reason
\* and changes nothing.
C8_HunterDirection ==
  HunterCapture =>
     IF Travel(last.src, last.dst) = Mover.variant
       THEN last.res = OK
       ELSE last.res = "can only kill" /\ game = last.pre

\* C9 as stated: reveal fails on an empty cell, on a face-up card and out of
\* turn; on success exactly that card is turned face-up, tiles_left drops by
\* one and the active team swaps; a second reveal of the same cell fails
\* with the already-revealed reason.
RevealFailsIf ==
  (\/ Mover = NoCard
   \/ Mover.facing = "up"
   \/ ~TurnPasses(last.pre, last.for_enemy)) => last.res # OK

RevealEffect ==
  last.res = OK =>
     /\ Mover.facing = "down"
     /\ game.cards = [last.pre.cards EXCEPT ![last.src].facing = "up"]
     /\ game.tiles_left = last.pre.tiles_left - 1
     /\ game.to_play = Other(last.pre.to_play)
     /\ game.points = last.pre.points

\* this call reveals the cell that the last successful call revealed
SecondReveal ==
  /\ Called("reveal")
  /\ last.prev_ok.op = "reveal"
  /\ last.prev_ok.src = last.src

C9_RevealAsStated ==
  Called("reveal") =>
     /\ RevealFailsIf
     /\ RevealEffect
     /\ SecondReveal => last.res = "Can't reveal face-up card"

\* C9, amended: as stated, but a second reveal of the same cell fails with
\* the already-revealed reason when its turn check passes and with the
\* wrong-turn reason when it does not.
C9_Reveal ==
  Called("reveal") =>
     /\ RevealFailsIf
     /\ RevealEffect
     /\ SecondReveal =>
          IF TurnPasses(last.pre, last.for_enemy)
            THEN last.res = "Can't reveal face-up card"
            ELSE last.res \in {"Not your turn!", "Not other player's turn!"}

\* the cell just revealed is revealed again, the turn check passing
C9_Witness ==
  /\ SecondReveal
  /\ TurnPasses(last.pre, last.for_enemy)
  /\ last.res = "Can't reveal face-up card"

\* C10: a rescue never succeeds while turns_left is null.
C10_NoRescueInRevealPhase ==
  Succeeded("rescue") => last.pre.turns_left # None

\* the four exits, each named by the edge cell next to it
EdgeCells == {<<0, Mid>>, <<N_ROWS_AND_COLS - 1, Mid>>,
              <<Mid, 0>>, <<Mid, N_ROWS_AND_COLS - 1>>}

\* a cell lies on the axis of an exit: the middle row for the left and the
\* right exit, the middle column for the top and the bottom exit
OnAxis(c, e) == IF e[2] = Mid /\ e[1] # Mid THEN c[2] = Mid ELSE c[1] = Mid

\* the cells a card at c crosses on its way out through the exit at e
WayOut(c, e) == StrictlyBetween(c, e) \cup (IF c = e THEN {} ELSE {e})

\* C11: a rescue succeeds only if the card stands on the axis of an exit and
\* every cell between it and that exit, the edge cell included unless the
\* card stands on it, is empty.
C11_RescueNeedsClearPath ==
  Succeeded("rescue") =>
     \E e \in EdgeCells :
        /\ OnAxis(last.src, e)
        /\ \A c \in WayOut(last.src, e) : last.pre.cards[c] = NoCard

\* C12: a rescue fails out of turn, on an empty cell and for a card whose
\* owner is not the team to play (a neutral kind never leaves); on success
\* exactly that card is removed, its points go to the acting team only and
\* the active team swaps.
C12_Rescue ==
  Called("rescue") =>
     /\ (\/ ~TurnPasses(last.pre, last.for_enemy)
         \/ Mover = NoCard
         \/ CARD_TYPES[Mover.kind].team # last.pre.to_play) => last.res # OK
     /\ last.res = OK =>
          /\ game.cards = [last.pre.cards EXCEPT ![last.src] = NoCard]
          /\ game.points =
               [last.pre.points EXCEPT ![last.pre.to_play] =
                  @ + CARD_TYPES[Mover.kind].points]
          /\ game.to_play = Other(last.pre.to_play)

\* a piece worth points left the board from a cell that is not an edge cell
C12_Witness ==
  /\ Succeeded("rescue")
  /\ last.src \notin EdgeCells
  /\ game.points[last.pre.to_play] > last.pre.points[last.pre.to_play]
  /\ game.to_play # last.pre.to_play

AnyOp == last.op \in {"reveal", "move", "rescue"}

\* C13: every successful reveal, move or rescue passes the turn by one rule:
\* a non-null turns_left drops by half a turn; a null one becomes 5 when
\* tiles_left is 0 after the operation and stays null otherwise; to_play
\* flips.
C13_TurnSwapRule ==
  (AnyOp /\ last.res = OK) =>
     /\ game.to_play = Other(last.pre.to_play)
     /\ game.turns_left =
          IF last.pre.turns_left # None THEN <<last.pre.turns_left[1] - 1>>
          ELSE IF game.tiles_left = 0 THEN <<2 * START_TURNS>>
          ELSE None

\* the reveal of the last face-down card opened the endgame
C13_Witness ==
  /\ Succeeded("reveal")
  /\ last.pre.turns_left = None
  /\ game.tiles_left = 0
  /\ game.turns_left = <<2 * START_TURNS>>

\* C14: between operations turns_left is null exactly while tiles_left > 0,
\* on the engine and on the engine replaying it, and a call never takes a
\* non-null turns_left back to null.
C14_NullExactlyInRevealPhase ==
  /\ (game.turns_left = None) <=> (game.tiles_left > 0)
  /\ (peer.turns_left = None) <=> (peer.tiles_left > 0)
  /\ last.pre.turns_left # None => game.turns_left # None

\* an operation was applied in the endgame that a reveal had opened
C14_Witness ==
  /\ AnyOp /\ last.res = OK
  /\ last.prev_ok.op = "reveal"
  /\ last.pre.turns_left = <<2 * START_TURNS>>
  /\ game.turns_left # None
  /\ game.tiles_left = 0

\* C15: once turns_left is 0 or less an attempted reveal, move or rescue
\* raises game-over and changes nothing, so turns_left never drops below 0.
C15_NoOperationAfterGameOver ==
  /\ (AnyOp /\ GameOver(last.pre)) => (last.res = "GameOver" /\ game = last.pre)
  /\ game.turns_left # None => game.turns_left[1] >= 0

\* C16: tiles_left is the number of face-down cards on the board.
C16_TilesLeftCountsFaceDown == game.tiles_left = FaceDown(game.cards)

\* the message of the last call, written out
SentForLast ==
  [tag |-> last.op,
   args |-> IF last.op = "move" THEN <<last.src, last.dst>> ELSE <<last.src>>]

\* C17: on a networked engine a successful local operation appends exactly
\* its own message to the outgoing queue, the engine having applied it; a
\* failed operation and an operation applied for the enemy append nothing.
C17_OneMessagePerLocalOperation ==
  (AnyOp /\ Networked(last.pre)) =>
     IF last.res = OK /\ ~last.for_enemy
       THEN send_queue = Append(last.preq, SentForLast) /\ game # last.pre
       ELSE send_queue = last.preq

\* a peer-reported capture was applied while a local message was waiting
C17_Witness ==
  /\ Succeeded("move")
  /\ last.for_enemy
  /\ Networked(last.pre)
  /\ Len(last.preq) > 0
  /\ send_queue = last.preq

\* C18: with a concrete team a local operation succeeds only on the
\* engine's own turn and an operation for the enemy only on the other
\* side's turn; on an either-team engine the turn check never stops a local
\* operation (can_play is always true) and always stops one for the enemy.
C18_TurnCheck ==
  AnyOp =>
     /\ (Networked(last.pre) /\ last.res = OK) =>
          IF last.for_enemy THEN last.pre.to_play # last.pre.team
          ELSE last.pre.to_play = last.pre.team
     /\ ~Networked(last.pre) =>
          /\ can_play(last.pre)
          /\ last.res # "Not your turn!"
          /\ last.for_enemy => last.res = "Not other player's turn!"

\* a local reveal went through on an either-team engine
C18_Witness ==
  /\ Succeeded("reveal")
  /\ ~last.for_enemy
  /\ last.pre.team = "both"

\* C19: an operation reported by the peer that fails validation on the side
\* handling it (host or joining client) is answered with an error; it is
\* never passed over with play going on.
C19_PeerFailureReported ==
  (last.by \in {"host", "client"} /\ last.res # OK) => last.reported

\* C20: no message on its way to the joining side carries the kind or the
\* variant of a card that was face-down on the host's board when it was
\* written.
C20_NoHiddenCardInMessages ==
  \A i \in 1 .. Len(to_client) :
     to_client[i].tag = "cards" =>
        \A c \in Cells :
           to_client[i].args[1][c].facing = "down" =>
              /\ to_client[i].args[1][c].kind = "none"
              /\ to_client[i].args[1][c].variant = "none"

IsPrefix(a, b) == Len(a) <= Len(b) /\ \A i \in 1 .. Len(a) : a[i] = b[i]

\* C21: the operations one side has taken from the other are, in order and
\* without repetition, the first of those the other side queued: from the
\* joining side to the host, and from the host (whose operations share the
\* outgoing queue with its responses) to the joining side.
C21_OperationsArriveInOrder ==
  /\ IsPrefix(log.client_got, log.host_sent)
  /\ IsPrefix(log.host_got, log.client_sent)

\* the joining side has taken two operations of the host, the host one of
\* the joining side
C21_Witness ==
  /\ Len(log.client_got) >= 2
  /\ Len(log.host_got) >= 1

\* the response MPServerHalali.update produces for a request
Answers(request, reply) ==
  CASE request \in {"status", "cards"} -> reply = request
    [] request = "ping" -> reply = "None"
    [] request \in {"move", "reveal", "rescue"} -> reply \in {"ok", "FIXME"}
    [] OTHER -> FALSE

\* C22: every message the host's server thread has written to the socket
\* is the response to the request it had just read, also when locally
\* issued operations or earlier null responses wait on the same queue.
C22_OneRequestOneResponse ==
  \A i \in 1 .. Len(log.replies) :
     Answers(log.replies[i][1], log.replies[i][2])

\* a request of the peer for an operation has been handled by the host
HostHandled == last.by = "host" /\ AnyOp

\* C23: to a move, reveal or rescue request of the peer the host responds
\* ["ok"] when it applied the operation and ["error", "wrong move" /
\* "wrong reveal" / "wrong rescue", reason] when validation failed, its
\* state then being as before.
C23_HostResponse ==
  HostHandled =>
     IF last.res = OK
       THEN last.reply = Msg("ok", << >>)
       ELSE /\ last.reply = Msg("error", <<Wrong(last.op), last.res>>)
            /\ game = last.pre

\* C24: after the host has rejected an operation of the joining side, the
\* host's state is as before the request and the joining side keeps
\* running: handling the host's reply raises nothing fatal.
C24_RejectionIsRecoverable ==
  /\ (HostHandled /\ last.res # OK) => game = last.pre
  /\ (last.by = "client" /\ last.msg.tag \in {"error", "FIXME"}) =>
        /\ ~last.reported
        /\ client_pc # "crashed"

\* C26: a status response of another version makes the joining side raise
\* at once and adopt nothing of it; a status response of its own version
\* makes it adopt to_play, its team, the points and turns_left (null when
\* the response has none).
C26_VersionCheck ==
  (last.by = "client" /\ last.op = "status") =>
     LET status == last.msg.args[1]
     IN IF status.version # VERSION
          THEN /\ client_pc = "crashed"
               /\ peer = last.pre
          ELSE /\ peer.to_play = status.to_play
               /\ peer.team = status.client_team
               /\ peer.points = status.points
               /\ peer.turns_left = IF "turns_left" \in DOMAIN status
                                      THEN status.turns_left ELSE None
               /\ last.res = OK

\* a status response of the joining side's own version that reports
\* turns_left has been adopted
C26_Witness ==
  /\ last.by = "client" /\ last.op = "status"
  /\ last.msg.args[1].version = VERSION
  /\ "turns_left" \in DOMAIN last.msg.args[1]
  /\ peer.turns_left # last.pre.turns_left
  /\ client_pc = "run"

\* C25: when the connection is lost, the receive loop of either side queues
\* ["disconnected"] for its core before it ends.
C25_BothSidesLearnOfDisconnect ==
  /\ server_pc = "closed" => "host" \in log.told
  /\ thread_pc = "closed" => "client" \in log.told

\* C27: find_server, once called, ends; it looks at `server` at most 20
\* times; a look that finds an address returns that address at once, a look
\* that finds none goes on to sleep; it returns None only after 20 looks.
C27_DiscoveryTerminates ==
  /\ [](polls <= POLL_ATTEMPTS)
  /\ [][(find_pc = "check" /\ find_pc' # "check") =>
          IF server # None
            THEN find_pc' = "done" /\ found' = server
            ELSE find_pc' = "sleep"]_vars
  /\ []((find_pc = "done" /\ found = None) => polls = POLL_ATTEMPTS)
  /\ ((find_pc # "off") ~> (find_pc = "done"))

\* an address that is resolved during the last sleep but one is returned
\* by the twentieth look
C27_Witness ==
  /\ find_pc = "done"
  /\ found \in Addresses
  /\ polls = POLL_ATTEMPTS

KindCount(cards, kind) == Cardinality({c \in Cells : cards[c].kind = kind})

\* C28: after a deal the center cell is empty, each of the other 48 cells
\* holds a face-down card, and each kind is on the board as many times as
\* the catalogue counts it (6 fox, 2 bear, 7 duck, 8 pheasant, 8 hunter,
\* 2 lumberjack, 15 tree).
C28_Deal ==
  last.op = "deal" =>
    /\ game.cards[<<Mid, Mid>>] = NoCard
    /\ \A c \in Cells \ {<<Mid, Mid>>} :
         /\ game.cards[c] # NoCard
         /\ game.cards[c].facing = "down"
    /\ Cardinality(Cells \ {<<Mid, Mid>>}) = 48
    /\ \A k \in Kinds : KindCount(game.cards, k) = CARD_TYPES[k].count
    /\ <<KindCount(game.cards, "fox"), KindCount(game.cards, "bear"),
          KindCount(game.cards, "duck"), KindCount(game.cards, "pheasant"),
          KindCount(game.cards, "hunter"), KindCount(game.cards, "lumberjack"),
          KindCount(game.cards, "tree")>> = <<6, 2, 7, 8, 8, 2, 15>>

\* a deal whose shuffle put the last card appended in front of the first
C28_Witness ==
  /\ last.op = "deal"
  /\ game.cards[<<0, 0>>].kind = "tree"
  /\ game.cards[<<0, 1>>].kind = "fox"

\* C29: the winner shown at game over is the team whose score is strictly
\* higher, and Humans when the two scores are equal.
C29_Winner ==
  view.name = "GameOverView" =>
    /\ GameOver(game)
    /\ view.points = game.points
    /\ view.points["animals"] > view.points["humans"] => view.winner = "Animals"
    /\ view.points["humans"] > view.points["animals"] => view.winner = "Humans"
    /\ view.points["humans"] = view.points["animals"] => view.winner = "Humans"

\* a match that ends level after the bear was rescued in the last half-turn
C29_Witness ==
  /\ view.name = "GameOverView"
  /\ view.points["humans"] = view.points["animals"]
  /\ view.winner = "Humans"
  /\ last.op = "rescue"
  /\ last.res = OK

\* the candidates in the words of C30, for the opponent of g.team: the
\* reveal of every hidden cell, every legal move (to any cell of the
\* board) of a face-up piece of a kind its team may move, and, once
\* turns_left is set, every legal rescue
Hidden(g) == {c \in Cells : g.cards[c].facing = "down"}

LegalMoves(g) ==
  {m \in Cells \X Cells :
     /\ g.cards[m[1]].facing = "up"
     /\ g.cards[m[1]].kind \in MOVABLE_FOR[Other(g.team)]
     /\ validate_move(g, m[1][1], m[1][2], m[2][1], m[2][2], TRUE) = OK}

LegalRescues(g) ==
  {c \in Cells :
     /\ g.turns_left # None
     /\ g.cards[c].facing = "up"
     /\ validate_rescue(g, c[1], c[2], TRUE) = OK}

Capturing(g, m) == g.cards[m[2]] # NoCard

\* the highest priority present: 3 rescue, 2 capturing move, 1 move to an
\* empty cell, 0 reveal; -1 when there is no candidate
TopPriority(g) ==
  IF LegalRescues(g) # {} THEN 3
  ELSE IF \E m \in LegalMoves(g) : Capturing(g, m) THEN 2
  ELSE IF LegalMoves(g) # {} THEN 1
  ELSE IF Hidden(g) # {} THEN 0
  ELSE 0 - 1

IssuedPriority ==
  CASE last.op = "rescue" /\ last.src \in LegalRescues(last.pre) -> 3
    [] last.op = "move" /\ <<last.src, last.dst>> \in LegalMoves(last.pre) ->
         IF Capturing(last.pre, <<last.src, last.dst>>) THEN 2 ELSE 1
    [] last.op = "reveal" /\ last.src \in Hidden(last.pre) -> 0
    [] OTHER -> 0 - 2

\* C30: the operation the opponent heuristic issues is one of its
\* candidates and none of the candidates has a higher priority; with no
\* candidate it issues none and leaves the state as it was.
C30_OpponentPicksTopPriority ==
  last.by = "opponent" =>
    IF TopPriority(last.pre) < 0
      THEN last.op = "none" /\ game = last.pre
      ELSE last.op # "none" /\ IssuedPriority = TopPriority(last.pre)

\* the opponent rescues a piece although it could also have moved one
C30_Witness ==
  /\ last.by = "opponent"
  /\ last.op = "rescue"
  /\ last.res = OK
  /\ LegalMoves(last.pre) # {}

\* C31: available_moves(cell) yields the cells to which a move from cell
\* passes validation, all of them, none else and none twice, and leaves
\* the state alone; with the turn check passed, attempt_move(cell, t)
\* succeeds exactly for the t it yielded.
C31_AvailableMoves ==
  last.op = "available_moves" =>
    LET g == last.pre
        cell == last.src
    IN /\ game = g
       /\ Range(last.yielded) =
            {t \in Cells :
               validate_move(g, cell[1], cell[2], t[1], t[2],
                             last.for_enemy) = OK}
       /\ \A i, j \in DOMAIN last.yielded :
            last.yielded[i] = last.yielded[j] => i = j
       /\ check_can_play(g, last.for_enemy) = OK =>
            \A t \in Cells :
              attempt_move(g, cell, t, last.for_enemy).res = OK
                <=> t \in Range(last.yielded)

\* a card with a target in its row and a target in its column, one of
\* them a capture
C31_Witness ==
  /\ last.op = "available_moves"
  /\ check_can_play(last.pre, last.for_enemy) = OK
  /\ \E t, u \in Range(last.yielded) :
       /\ t[1] # last.src[1]
       /\ u[2] # last.src[2]
       /\ last.pre.cards[t] # NoCard

\* C32: tiles_left, once 0, stays 0; turns_left is set, to the starting
\* budget, by the very step that takes tiles_left to 0 and by no other,
\* and is never unset again; the view has no exits before that and four
\* from its next poll on, whatever follows.
C32_EndgameEnteredOnce ==
  /\ [][game.tiles_left = 0 => game'.tiles_left = 0]_vars
  /\ [][(game.turns_left = None /\ game'.turns_left # None)
          <=> (game.tiles_left # 0 /\ game'.tiles_left = 0)]_vars
  /\ [][(game.turns_left = None /\ game'.turns_left # None)
          => game'.turns_left = <<2 * START_TURNS>>]_vars
  /\ [][game.turns_left # None => game'.turns_left # None]_vars
  /\ [](view.name = "GameView" =>
          /\ view.exits \in {0, 4}
          /\ view.exits = 4 => game.turns_left # None)
  /\ [][(view.name = "GameView" /\ view'.name = "GameView")
          => view'.exits >= view.exits]_vars
  /\ [][(view.name = "GameView" /\ game.turns_left # None /\ view' # view)
          => (view'.name = "GameView" => view'.exits = 4)]_vars

\* the exits are there and operations of the endgame have followed
C32_Witness ==
  /\ view.name = "GameView"
  /\ view.exits = 4
  /\ game.tiles_left = 0
  /\ game.turns_left # None
  /\ game.turns_left[1] < 2 * START_TURNS
  /\ last.res = OK

\* the team to play has an operation that validation accepts: a reveal, a
\* move or a rescue, asked for by the player when it is the player's turn
\* and by the opponent (for_enemy) when it is not
HasLegalOperation(g) ==
  LET for_enemy == ~can_play(g)
  IN \/ \E c \in Cells : validate_reveal(g, c[1], c[2], for_enemy) = OK
     \/ \E c \in Cells, t \in Cells :
          validate_move(g, c[1], c[2], t[1], t[2], for_enemy) = OK
     \/ \E c \in Cells : validate_rescue(g, c[1], c[2], for_enemy) = OK

\* C33: in every state of the endgame with turns_left > 0 the team to
\* play has at least one legal operation, so that the countdown cannot
\* stall.
C33_EndgameNeverStalls ==
  (game.turns_left # None /\ game.turns_left[1] > 0) => HasLegalOperation(game)

\* C34: a slow kind (bear, lumberjack) is rescued only from an edge cell
\* next to an exit, the exit being the only destination at distance one.
C34_SlowRescueFromEdgeOnly ==
  (/\ last.op = "rescue"
   /\ last.res = OK
   /\ CARD_TYPES[last.pre.cards[last.src].kind].slow)
    => last.src \in EdgeCells

\* C35: a move or a rescue that succeeds leaves every face-down card where
\* and as it was: none is relocated, captured or taken off the board.
C35_FaceDownOnlyRevealed ==
  (last.op \in {"move", "rescue"} /\ last.res = OK) =>
    \A c \in Cells :
      last.pre.cards[c].facing = "down" => game.cards[c] = last.pre.cards[c]

\* C36: the two scores and the points of the cards on the board add up to
\* the catalogue's total, 168, in every state; no operation lowers a
\* score, and none adds a card to the board.
C36_ScoreConservation ==
  /\ CatalogueTotal = 168
  /\ game.points["humans"] + game.points["animals"] + BoardPoints(game.cards)
       = CatalogueTotal
  /\ \A t \in TEAMS : game.points[t] >= last.pre.points[t]
  /\ Cardinality({c \in Cells : game.cards[c] # NoCard})
       <= Cardinality({c \in Cells : last.pre.cards[c] # NoCard})

\* a capture has been scored
C36_Witness ==
  /\ last.op = "move"
  /\ last.res = OK
  /\ last.pre.cards[last.dst] # NoCard
  /\ game.points[last.pre.to_play] > last.pre.points[last.pre.to_play]

\* C37: with the connection up and the joining side polling, every
\* operation the host's player makes is in the end applied by the joining
\* side's engine.
C37_HostOperationsArrive ==
  \A k \in 1..MaxNetOps :
    (Len(log.host_sent) >= k)
      ~> (/\ Len(log.client_applied) >= k
          /\ log.client_applied[k] = log.host_sent[k])


\* C38: in single-player mode a call of move_for_opponent is on the clock
\* exactly after the deal or a swap that left to_play different from the
\* player's team (never more than one, never while the player can play);
\* the operation the heuristic selects passes validation with
\* for_enemy=True, so a heuristic turn that had a candidate applied it,
\* swapped the turn once and left the turn with the player.
C38_HeuristicTurn ==
  /\ clock \in {0, 1}
  /\ clock = 1 => ~can_play(game)
  /\ (/\ ~can_play(game)
      /\ \/ last.op = "none" /\ last.by = "none"
         \/ last.op # "none" /\ last.res = OK)
       => clock = 1
  /\ (last.by = "opponent" /\ possible_moves(last.pre) # {})
       => /\ last.op # "none"
          /\ last.res = OK
          /\ game.to_play = Other(last.pre.to_play)
          /\ game # last.pre
          /\ can_play(game)
          /\ clock = 0

\* the heuristic had candidates, played a capture and the player is on turn
C38_Witness ==
  /\ last.by = "opponent"
  /\ last.op = "move"
  /\ last.pre.cards[last.dst] # NoCard
  /\ last.res = OK
  /\ can_play(game)
  /\ clock = 0



\* C39: no reveal, move or rescue succeeds when one of its coordinates lies
\* outside the grid (below 0 or above N_ROWS_AND_COLS - 1), requests of the
\* peer included, and a successful operation changes no cell other than
\* the cells its in-grid coordinates name.
C39_InGridOnly ==
  (last.op \in {"reveal", "move", "rescue"} /\ last.res = OK)
    => /\ last.src \in Cells
       /\ last.dst \in Cells
       /\ \A c \in Cells :
            game.cards[c] # last.pre.cards[c] => c \in {last.src, last.dst}


====
